---- MODULE Spec2Model ----
(***************************************************************************)
(* Document lifecycle of the ragflow API server: the request handlers of   *)
(* api/apps/document_app.py, kb_app.py and file2document_app.py acting on  *)
(* the Metadata Store (Document, Knowledgebase, Task, File, File2Document  *)
(* rows), the Blob Store, the Index Store and the Task Queue.              *)
(*                                                                         *)
(* One request is in flight at a time; every store call of a handler is    *)
(* one step, so the order of the calls and a failure between two calls     *)
(* are visible in the state.  A store call either takes effect or raises.  *)
(***************************************************************************)
EXTENDS Integers, Sequences, FiniteSets, TLC

\* ---------------------------------------------------------------- bounds
InitDocs == 2     \* Documents 1..InitDocs exist initially
MaxDocs == InitDocs + 2   \* document ids 1..MaxDocs; the others are fresh
MaxKbs == 2       \* knowledge bases 1..MaxKbs
MaxBatch == 3     \* longest doc_id list of a Delete request
MaxRunBatch == 2  \* longest doc_ids list of a Run request
MaxOps == 2       \* requests served in one behaviour
MaxFaults == 1    \* store calls that raise in one behaviour

DocIds == 1..MaxDocs
KbIds == 1..MaxKbs

\* api.db.TaskStatus, as the strings the handlers compare with
UNSTART == "0"
RUNNING == "1"
CANCEL == "2"
DONE == "3"
FAIL == "4"
RunValues == {UNSTART, RUNNING, CANCEL, DONE, FAIL}

\* api.db.FileSource
KNOWLEDGEBASE == "knowledgebase"
LOCAL_SOURCE == ""

\* api.db.FileType values used here
VIRTUAL == "virtual"
VISUAL == "visual"
PDF == "pdf"
FOLDER == "folder"

VARIABLES
    docs,       \* Document rows: [DocIds -> record or NoDoc]
    tasks,      \* number of Task rows per doc_id
    kbs,        \* Knowledgebase rows
    files,      \* File rows: [FileIds -> record or NoFile]
    f2d,        \* File2Document rows: set of [file_id, document_id]
    blobs,      \* Blob Store: set of <<bucket, key>>
    idx,        \* Index Store entries per doc_id: [n, kb, available_int]
    idxExists,  \* the tenant's index exists
    queue,      \* Task Queue: payloads enqueued by queue_tasks
    pc,         \* position of the request in flight
    req,        \* its arguments
    i,          \* its outer loop index
    informs,    \* the row list an inner loop iterates
    j,          \* inner loop index
    cur,        \* its local variables
    made,       \* ids of the Documents it has inserted
    errors,     \* rm: the ids whose exception text was appended to errors
    res,        \* the response of the last finished request
    nops,       \* requests started
    faults,     \* store calls that raised
    faulted,    \* the request in flight had a store call raise
    born,       \* per Document, the storage address it had when inserted
    peer,       \* a second web_crawl request served by another worker thread
    stop_event, \* ragflow_server.stop_event is set
    sweeper,    \* position of the update_progress thread
    wait_left,  \* seconds left of its stop_event.wait(6)
    main,       \* position of the main thread
    sleep_left, \* seconds left of its time.sleep(1)
    signals,    \* SIGINT / SIGTERM signals delivered
    last_tick,  \* how the latest DocumentService.update_progress() call ended
    TASKEXE,    \* Redis set "TASKEXE": the task executor ids
    heartbeats, \* Redis sorted set per executor id: heartbeat timestamps
    now,        \* wall clock, seconds
    user_tenant \* UserTenant rows: per (user, tenant) the roles of its rows

stores == <<docs, tasks, kbs, files, f2d, blobs, idx, idxExists, queue>>
locals == <<req, i, informs, j, cur, made, errors>>
server == <<stop_event, sweeper, wait_left, main, sleep_left, signals,
            last_tick>>
redis == <<TASKEXE, heartbeats, now>>
rest == <<peer, server, redis, user_tenant>>
vars == <<docs, tasks, kbs, files, f2d, blobs, idx, idxExists, queue,
          pc, req, i, informs, j, cur, made, errors, res, nops, faults,
          faulted, born, rest>>

\* ------------------------------------------------------------ row shapes
NoDoc == [none |-> TRUE]
NoFile == [none |-> TRUE]
NoLoc == [b |-> "", c |-> 0, ext |-> "", us |-> 0]          \* location ""
NoAddr == <<<<"none", 0>>, NoLoc>>
\* pagerank_fea is the set of values of the field: {} when it is absent
NoIdx == [n |-> 0, kb |-> 0, available_int |-> 1, pagerank_fea |-> {}]
NoCur == [none |-> TRUE]
NoReq == [op |-> "none"]

KbBucket(k) == <<"kb", k>>
DirBucket == <<"dir", 0>>                        \* a folder of the user's tree

KbFile(d) == <<"kbfile", d>>      \* the knowledge-base-private File of doc d
KbFolder(k) == <<"kbfolder", k>>  \* the private root folder File of kb k
LocalFile == <<"local", 1>>       \* a File of the user's general folder tree
FileIds == {KbFile(d) : d \in DocIds} \cup {KbFolder(k) : k \in KbIds}
              \cup {LocalFile}

\* a name "b(c).ext" (c = 0: no counter), and a blob key: the name plus us "_"
NameExt(b, c, ext) == [b |-> b, c |-> c, ext |-> ext]
Name(b, c) == NameExt(b, c, "pdf")

\* str.lower() on the parser ids and suffixes the requests use
lower(s) ==
    CASE s = "Naive" -> "naive"
      [] s = "PDF" -> "pdf"
      [] s = "KB" -> "kb"
      [] OTHER -> s
Key(nm, us) == [b |-> nm.b, c |-> nm.c, ext |-> nm.ext, us |-> us]

\* Knowledgebase.parser_id and parser_config (no handler modelled here
\* writes them)
kb_parser_id(k) == IF k = 1 THEN "naive" ELSE "book"
kb_parser_config(k) == IF k = 1 THEN "c0" ELSE "c1"

\* a Document row as web_crawl and convert insert it: the KB's parser, the
\* size of a non-empty blob, and the defaults of the Document model
NewDoc(kb, type, name, location) ==
    [kb |-> kb, type |-> type, name |-> name, location |-> location,
     size |-> 1,
     parser_id |-> kb_parser_id(kb), parser_config |-> kb_parser_config(kb),
     run |-> UNSTART, progress |-> 0,
     progress_msg |-> "", chunk_num |-> 0, token_num |-> 0, status |-> "1",
     meta_fields |-> "{}"]

\* a virtual Document that takes the type of a file (what C20 rules out)
CreateDocAsFile(k, nm) == NewDoc(k, PDF, nm, NoLoc)

\* create, lines 205-217: the row of a virtual Document
CreateDoc(k, nm) == [NewDoc(k, VIRTUAL, nm, NoLoc) EXCEPT !.size = 0]

\* a Document the task executor has parsed: chunks in the index, a Task row
Parsed(doc) ==
    [doc EXCEPT !.run = DONE, !.progress = 100, !.progress_msg = "done",
                !.chunk_num = 2, !.token_num = 5]

LocalKey == Key(Name("f", 0), 0)

\* ------------------------------------------------------- service helpers
\* File2DocumentService.get_by_document_id / get_by_file_id
LinksOfDoc(d) == {l \in f2d : l.document_id = d}
LinksOfFile(f) == {l \in f2d : l.file_id = f}

\* the rows of a query as a list, in id order
RECURSIVE SetToSeq(_)
SetToSeq(S) ==
    IF S = {} THEN <<>>
    ELSE LET m == CHOOSE x \in S : \A y \in S : x <= y
         IN <<m>> \o SetToSeq(S \ {m})

FirstLink(d) == CHOOSE l \in LinksOfDoc(d) : TRUE

\* File2DocumentService.get_storage_address(doc_id): a Document linked to a
\* File of the user's own tree is stored with that File; any other Document
\* is stored at (kb_id, location)
get_storage_address(d) ==
    IF LinksOfDoc(d) # {} /\ files[FirstLink(d).file_id] # NoFile
       /\ files[FirstLink(d).file_id].source_type = LOCAL_SOURCE
    THEN <<files[FirstLink(d).file_id].parent_id,
           files[FirstLink(d).file_id].location>>
    ELSE <<KbBucket(docs[d].kb), docs[d].location>>

\* DocumentService.get_tenant_id: the tenant of the Document's KB, if any
get_tenant_id(d) ==
    IF docs[d] # NoDoc /\ kbs[docs[d].kb].live THEN "tenant1" ELSE "none"

\* DocumentService.accessible4deletion / accessible: the Document exists in
\* a knowledge base the caller may use
accessible(d) == docs[d] # NoDoc /\ kbs[docs[d].kb].live

\* DocumentService.remove_document(doc, tenant_id): deletes the Document's
\* index entries and its row, and takes its counts off the KB's counters;
\* it does not touch Task rows
remove_document_docs(d) == [docs EXCEPT ![d] = NoDoc]
remove_document_idx(d) == [idx EXCEPT ![d] = NoIdx]
remove_document_kbs(d) ==
    [kbs EXCEPT ![docs[d].kb].chunk_num = @ - docs[d].chunk_num,
                ![docs[d].kb].token_num = @ - docs[d].token_num]

\* TaskService.filter_delete([Task.doc_id == d])
DeleteTasks(d) == [tasks EXCEPT ![d] = 0]

\* a filter_delete without the source_type condition (what C22 rules out)
DeleteAnyFile(f) == [files EXCEPT ![f] = NoFile]

\* FileService.filter_delete([File.source_type == KNOWLEDGEBASE, File.id == f])
DeleteKbFile(f) ==
    [g \in FileIds |->
        IF g = f /\ files[g] # NoFile /\ files[g].source_type = KNOWLEDGEBASE
        THEN NoFile ELSE files[g]]

\* ------------------------------------------------------------------ Init
DocKinds == {"crawled_parsed", "virtual", "converted"}

InitDoc(d, kind) ==
    CASE kind = "none" -> NoDoc
      [] kind = "crawled" ->
            NewDoc(1, PDF, Name("a", d - 1), Key(Name("a", d - 1), 0))
      [] kind = "crawled_parsed" ->
            Parsed(NewDoc(1, PDF, Name("a", d - 1), Key(Name("a", d - 1), 0)))
      [] kind = "crawled_visual" ->
            [NewDoc(1, VISUAL, NameExt("a", d - 1, "jpg"),
                    Key(NameExt("a", d - 1, "jpg"), 0))
               EXCEPT !.parser_id = "picture"]
      [] kind = "crawled_slides" ->
            [NewDoc(1, PDF, NameExt("a", d - 1, "ppt"),
                    Key(NameExt("a", d - 1, "ppt"), 0))
               EXCEPT !.parser_id = "presentation"]
      [] kind = "virtual" -> CreateDoc(1, Name("v", d))
      [] kind = "converted" -> NewDoc(1, PDF, Name("f", 0), LocalKey)

IsCrawled(kind) ==
    kind \in {"crawled", "crawled_parsed", "crawled_visual", "crawled_slides"}

InitStores(kind) ==
    /\ docs = [d \in DocIds |->
                 IF d <= InitDocs THEN InitDoc(d, kind[d]) ELSE NoDoc]
    /\ tasks = [d \in DocIds |->
                 IF d <= InitDocs /\ kind[d] = "crawled_parsed" THEN 1 ELSE 0]
    /\ kbs = [k \in KbIds |->
                 [live |-> TRUE, name |-> Name("kb", k), pagerank |-> 0,
                  chunk_num |-> IF k = 1
                      THEN 2 * Cardinality({d \in 1..InitDocs :
                                              kind[d] = "crawled_parsed"})
                      ELSE 0,
                  token_num |-> IF k = 1
                      THEN 5 * Cardinality({d \in 1..InitDocs :
                                              kind[d] = "crawled_parsed"})
                      ELSE 0]]
    /\ files = [f \in FileIds |->
                 IF f = LocalFile
                 THEN [source_type |-> LOCAL_SOURCE, type |-> PDF,
                       parent_id |-> DirBucket, location |-> LocalKey,
                       name |-> Name("f", 0)]
                 ELSE IF f = KbFolder(1) /\ \E d \in 1..InitDocs :
                                               IsCrawled(kind[d])
                 THEN [source_type |-> KNOWLEDGEBASE, type |-> FOLDER,
                       parent_id |-> DirBucket, location |-> NoLoc,
                       name |-> Name("kb", 1)]
                 ELSE IF \E d \in 1..InitDocs :
                            f = KbFile(d) /\ IsCrawled(kind[d])
                 THEN [source_type |-> KNOWLEDGEBASE, type |-> PDF,
                       parent_id |-> KbBucket(1),
                       location |-> InitDoc(f[2], kind[f[2]]).location,
                       name |-> InitDoc(f[2], kind[f[2]]).name]
                 ELSE NoFile]
    /\ f2d = {[file_id |-> KbFile(d), document_id |-> d] :
                 d \in {e \in 1..InitDocs : IsCrawled(kind[e])}}
             \cup {[file_id |-> LocalFile, document_id |-> d] :
                 d \in {e \in 1..InitDocs : kind[e] = "converted"}}
    /\ blobs = {<<DirBucket, LocalKey>>}
               \cup {<<KbBucket(1), InitDoc(d, kind[d]).location>> :
                        d \in {e \in 1..InitDocs : IsCrawled(kind[e])}}
    /\ idx = [d \in DocIds |->
                 IF d <= InitDocs /\ kind[d] = "crawled_parsed"
                 THEN [n |-> 2, kb |-> 1, available_int |-> 1,
                       pagerank_fea |-> {}]
                 ELSE NoIdx]
    /\ idxExists = (\E d \in 1..InitDocs : kind[d] = "crawled_parsed")
    /\ queue = <<>>
    /\ born = [d \in DocIds |->
                 IF d > InitDocs \/ kind[d] = "none" THEN NoAddr
                 ELSE IF kind[d] = "converted" THEN <<DirBucket, LocalKey>>
                 ELSE <<KbBucket(1), InitDoc(d, kind[d]).location>>]

\* the task executors that may register in Redis
ExecIds == {"exe1", "exe2"}

NoPeer == [pc |-> "none"]

\* no second worker thread, the server process just started, Redis empty
InitServer ==
    /\ stop_event = FALSE
    /\ sweeper = "while"
    /\ wait_left = 0
    /\ main = "run_simple"
    /\ sleep_left = 0
    /\ signals = 0
    /\ last_tick = "none"

InitExt ==
    /\ peer = NoPeer
    /\ InitServer
    /\ TASKEXE = {}
    /\ heartbeats = [e \in ExecIds |-> {}]
    /\ now = 0

\* api.db.UserTenantRole
OWNER == "owner"
NORMAL == "normal"
INVITE == "invite"

\* the users; the tenant of a user has the user's id
Users == {"u1", "u2"}

\* every user owns their tenant and is in no other team
OwnersOnly == [p \in Users \X Users |-> IF p[1] = p[2] THEN <<OWNER>> ELSE <<>>]

\* no request in flight
InitRequest ==
    /\ pc = "idle"
    /\ req = NoReq
    /\ i = 0
    /\ informs = <<>>
    /\ j = 0
    /\ cur = NoCur
    /\ made = <<>>
    /\ errors = <<>>
    /\ res = "none"
    /\ nops = 0
    /\ faults = 0
    /\ faulted = FALSE

InitLocals ==
    /\ InitExt
    /\ user_tenant = OwnersOnly
    /\ pc = "idle"
    /\ req = NoReq
    /\ i = 0
    /\ informs = <<>>
    /\ j = 0
    /\ cur = NoCur
    /\ made = <<>>
    /\ errors = <<>>
    /\ res = "none"
    /\ nops = 0
    /\ faults = 0
    /\ faulted = FALSE

Init ==
    /\ \E kind \in [1..InitDocs -> DocKinds] : InitStores(kind)
    /\ InitLocals

\* ------------------------------------------------------- request plumbing
Batches(S) == UNION {[1..n -> S] : n \in 1..MaxBatch}

\* a request enters: locals of the previous one are gone
Enter(r) ==
    /\ pc = "idle"
    /\ nops < MaxOps
    /\ nops' = nops + 1
    /\ req' = r
    /\ faulted' = FALSE
    /\ errors' = <<>>
    /\ made' = <<>>

\* the handler returns a response
Respond(r) ==
    /\ pc' = "done"
    /\ res' = r

\* a store call of the step at hand raises
Raise ==
    /\ faults < MaxFaults
    /\ faults' = faults + 1
    /\ faulted' = TRUE

\* the response is sent; the next request may enter
Return ==
    /\ pc = "done"
    /\ pc' = "idle"
    /\ req' = NoReq /\ i' = 0 /\ informs' = <<>> /\ j' = 0 /\ cur' = NoCur
    /\ made' = <<>> /\ errors' = <<>> /\ res' = "none" /\ faulted' = FALSE
    /\ UNCHANGED <<rest, stores, nops, faults, born>>

\* ---------------------------------------------- document_app.rm (Delete)
\* an authorization test of the first id only (what C30 rules out)
DocRmStartFirstOnly(ids) ==
    /\ Enter([op |-> "rm", doc_ids |-> ids])
    /\ IF ~accessible(ids[1])
       THEN /\ Respond("No authorization.")
            /\ i' = 0
       ELSE /\ pc' = "rm_get"
            /\ i' = 1
            /\ res' = res
    /\ UNCHANGED <<rest, stores, informs, j, cur, faults, born>>

\* rm, lines 407-423: the authorization loop over all ids, then errors = ""
DocRmStart(ids) ==
    /\ Enter([op |-> "rm", doc_ids |-> ids])
    /\ IF \E n \in 1..Len(ids) : ~accessible(ids[n])
       THEN /\ Respond("No authorization.")
            /\ i' = 0
       ELSE /\ pc' = "rm_get"
            /\ i' = 1
            /\ res' = res
    /\ UNCHANGED <<rest, stores, informs, j, cur, faults, born>>

\* the for loop of line 424 moves to the next id, or ends
DocRmAdvance ==
    /\ i' = i + 1
    /\ pc' = IF i + 1 > Len(req.doc_ids) THEN "rm_end" ELSE "rm_get"
    /\ res' = res

\* lines 426-433: the Document and its tenant are read; a missing one makes
\* the handler return at once
DocRmGet ==
    /\ pc = "rm_get"
    /\ LET d == req.doc_ids[i] IN
       IF docs[d] = NoDoc
       THEN /\ Respond("Document not found!")
            /\ cur' = cur
       ELSE IF get_tenant_id(d) = "none"
       THEN /\ Respond("Tenant not found!")
            /\ cur' = cur
       ELSE /\ pc' = "rm_tasks"
            /\ cur' = [b |-> get_storage_address(d)[1],
                       n |-> get_storage_address(d)[2]]
            /\ res' = res
    /\ UNCHANGED <<rest, stores, req, i, informs, j, made, errors, nops, faults,
                   faulted, born>>

\* a Delete that leaves the Task rows in place (what C2's order rules out)
DocRmTasksSkipped ==
    /\ pc = "rm_tasks"
    /\ pc' = "rm_doc"
    /\ UNCHANGED <<rest, stores, locals, res, nops, faults, faulted, born>>

\* line 435: TaskService.filter_delete([Task.doc_id == doc_id])
DocRmTasks ==
    /\ pc = "rm_tasks"
    /\ tasks' = DeleteTasks(req.doc_ids[i])
    /\ pc' = "rm_doc"
    /\ UNCHANGED <<rest, docs, kbs, files, f2d, blobs, idx, idxExists, queue,
                   locals, res, nops, faults, faulted, born>>

\* lines 436-439: DocumentService.remove_document(doc, tenant_id)
DocRmDoc ==
    /\ pc = "rm_doc"
    /\ LET d == req.doc_ids[i] IN
       IF docs[d] # NoDoc
       THEN /\ docs' = remove_document_docs(d)
            /\ idx' = remove_document_idx(d)
            /\ kbs' = remove_document_kbs(d)
            /\ pc' = "rm_file"
            /\ res' = res
       ELSE /\ Respond("Database error (Document removal)!")
            /\ UNCHANGED <<docs, idx, kbs>>
    /\ UNCHANGED <<rest, tasks, files, f2d, blobs, idxExists, queue, locals, nops,
                   faults, faulted, born>>

\* lines 441-447: f2d = get_by_document_id(doc_id); the File f2d[0].file_id
\* is deleted if it is knowledge-base-private.  f2d[0] of an empty list
\* raises IndexError, which line 451 catches.
DocRmFile ==
    /\ pc = "rm_file"
    /\ LET d == req.doc_ids[i] IN
       IF LinksOfDoc(d) = {}
       THEN /\ errors' = Append(errors, d)
            /\ DocRmAdvance
            /\ files' = files
       ELSE /\ files' = DeleteKbFile(FirstLink(d).file_id)
            /\ pc' = "rm_link"
            /\ UNCHANGED <<i, errors, res>>
    /\ UNCHANGED <<rest, docs, tasks, kbs, f2d, blobs, idx, idxExists, queue, req,
                   informs, j, cur, made, nops, faults, faulted, born>>

\* line 448: File2DocumentService.delete_by_document_id(doc_id)
DocRmLink ==
    /\ pc = "rm_link"
    /\ f2d' = f2d \ LinksOfDoc(req.doc_ids[i])
    /\ pc' = "rm_blob"
    /\ UNCHANGED <<rest, docs, tasks, kbs, files, blobs, idx, idxExists, queue,
                   locals, res, nops, faults, faulted, born>>

\* line 450: STORAGE_IMPL.rm(b, n), the last call of the iteration
DocRmBlob ==
    /\ pc = "rm_blob"
    /\ blobs' = blobs \ {<<cur.b, cur.n>>}
    /\ DocRmAdvance
    /\ UNCHANGED <<rest, docs, tasks, kbs, files, f2d, idx, idxExists, queue, req,
                   informs, j, cur, made, errors, nops, faults, faulted, born>>

\* lines 451-452: a store call inside the try raises; the text is appended
\* to errors and the loop goes on with the next id
DocRmExcept ==
    /\ pc \in {"rm_tasks", "rm_doc", "rm_file", "rm_link", "rm_blob"}
    /\ Raise
    /\ errors' = Append(errors, req.doc_ids[i])
    /\ DocRmAdvance
    /\ UNCHANGED <<rest, stores, req, informs, j, cur, made, nops, born>>

\* lines 454-459: the joined errors, or success
DocRmEnd ==
    /\ pc = "rm_end"
    /\ Respond(IF errors # <<>> THEN "errors" ELSE "ok")
    /\ UNCHANGED <<rest, stores, locals, nops, faults, faulted, born>>

DocRm ==
    \/ \E ids \in Batches(1..(InitDocs + 1)) : DocRmStart(ids)
    \/ DocRmGet
    \/ DocRmTasks
    \/ DocRmDoc
    \/ DocRmFile
    \/ DocRmLink
    \/ DocRmBlob
    \/ DocRmExcept
    \/ DocRmEnd

\* ------------------------------------------ kb_app.rm (DeleteKnowledgeBase)
KbName(k) == kbs[k].name

\* DocumentService.query(kb_id=k), the list line 288 iterates
DocsOfKb(k) ==
    SetToSeq({d \in DocIds : docs[d] # NoDoc /\ docs[d].kb = k})

\* the for loop of line 288 moves to the next Document, or leaves the loop
KbRmAdvance ==
    /\ i' = i + 1
    /\ pc' = IF i + 1 > Len(informs) THEN "kb_folder" ELSE "kb_doc"

\* lines 272-288: authorization, the owner's query, the Documents of the KB
KbRmStart(k) ==
    /\ Enter([op |-> "kb_rm", kb_id |-> k])
    /\ IF ~kbs[k].live
       THEN /\ Respond("No authorization.")
            /\ informs' = <<>>
            /\ cur' = cur
       ELSE /\ informs' = DocsOfKb(k)
            /\ cur' = [locations |->
                         [n \in 1..Len(DocsOfKb(k)) |->
                              docs[DocsOfKb(k)[n]].location]]
            /\ pc' = IF DocsOfKb(k) = <<>> THEN "kb_folder" ELSE "kb_doc"
            /\ res' = res
    /\ i' = 1
    /\ UNCHANGED <<rest, stores, j, faults, born>>

\* lines 289-292: DocumentService.remove_document(doc, kbs[0].tenant_id)
KbRmDoc ==
    /\ pc = "kb_doc"
    /\ LET d == informs[i] IN
       IF docs[d] # NoDoc
       THEN /\ docs' = remove_document_docs(d)
            /\ idx' = remove_document_idx(d)
            /\ kbs' = remove_document_kbs(d)
            /\ pc' = "kb_file"
            /\ res' = res
       ELSE /\ Respond("Database error (Document removal)!")
            /\ UNCHANGED <<docs, idx, kbs>>
    /\ UNCHANGED <<rest, tasks, files, f2d, blobs, idxExists, queue, locals, nops,
                   faults, faulted, born>>

\* lines 293-300: the knowledge-base-private File of the first link, if any
KbRmFile ==
    /\ pc = "kb_file"
    /\ LET d == informs[i] IN
       files' = IF LinksOfDoc(d) # {}
                THEN DeleteKbFile(FirstLink(d).file_id) ELSE files
    /\ pc' = "kb_link"
    /\ UNCHANGED <<rest, docs, tasks, kbs, f2d, blobs, idx, idxExists, queue,
                   locals, res, nops, faults, faulted, born>>

\* line 301: File2DocumentService.delete_by_document_id(doc.id)
KbRmLink ==
    /\ pc = "kb_link"
    /\ f2d' = f2d \ LinksOfDoc(informs[i])
    /\ KbRmAdvance
    /\ UNCHANGED <<rest, docs, tasks, kbs, files, blobs, idx, idxExists, queue,
                   req, informs, j, cur, made, errors, res, nops, faults,
                   faulted, born>>

\* lines 302-308: the File rows that are knowledge-base-private folders named
\* like the KB
KbRmFolder ==
    /\ pc = "kb_folder"
    /\ files' = [g \in FileIds |->
                   IF files[g] # NoFile
                      /\ files[g].source_type = KNOWLEDGEBASE
                      /\ files[g].type = FOLDER
                      /\ files[g].name = KbName(req.kb_id)
                   THEN NoFile ELSE files[g]]
    /\ pc' = "kb_row"
    /\ UNCHANGED <<rest, docs, tasks, kbs, f2d, blobs, idx, idxExists, queue,
                   locals, res, nops, faults, faulted, born>>

\* lines 309-312: KnowledgebaseService.delete_by_id(kb_id)
KbRmRow ==
    /\ pc = "kb_row"
    /\ IF kbs[req.kb_id].live
       THEN /\ kbs' = [kbs EXCEPT ![req.kb_id].live = FALSE,
                                   ![req.kb_id].chunk_num = 0,
                                   ![req.kb_id].token_num = 0]
            /\ pc' = "kb_index"
            /\ res' = res
       ELSE /\ Respond("Database error (Knowledgebase removal)!")
            /\ kbs' = kbs
    /\ UNCHANGED <<rest, docs, tasks, files, f2d, blobs, idx, idxExists, queue,
                   locals, nops, faults, faulted, born>>

\* docStoreConn.delete({"kb_id": k}, index, k)
IndexDeleteKb(k) == [d \in DocIds |-> IF idx[d].kb = k THEN NoIdx ELSE idx[d]]

\* docStoreConn.deleteIdx(index, k): the tenant's index is dropped
deleteIdx(ix) == [d \in DocIds |-> NoIdx]

\* lines 313-318: the KB's entries are deleted, then deleteIdx drops the
\* tenant's index, and with it whatever it still held
KbRmIndex ==
    /\ pc = "kb_index"
    /\ idx' = deleteIdx(IndexDeleteKb(req.kb_id))
    /\ idxExists' = FALSE
    /\ Respond("ok")
    /\ UNCHANGED <<rest, docs, tasks, kbs, files, f2d, blobs, queue, locals, nops,
                   faults, faulted, born>>

\* lines 319-320: any exception ends the whole request with a server error
KbRmExcept ==
    /\ pc \in {"kb_doc", "kb_file", "kb_link", "kb_folder", "kb_row",
               "kb_index"}
    /\ Raise
    /\ Respond("exception")
    /\ errors' = <<pc>>
    /\ UNCHANGED <<rest, stores, req, i, informs, j, cur, made, nops, born>>

KbRm ==
    \/ \E k \in KbIds : KbRmStart(k)
    \/ KbRmDoc
    \/ KbRmFile
    \/ KbRmLink
    \/ KbRmFolder
    \/ KbRmRow
    \/ KbRmIndex
    \/ KbRmExcept

\* ------------------------- file2document_app.rm (file-link removal)
\* the ids a request may name: Files, not folders
LinkableFiles == {KbFile(d) : d \in DocIds} \cup {LocalFile}

DocsOfFile(f) == SetToSeq({l.document_id : l \in LinksOfFile(f)})

\* lines 116-125: the request enters the loop over file_ids
F2dRmStart(fids) ==
    /\ Enter([op |-> "f2d_rm", file_ids |-> fids])
    /\ pc' = "f2drm_informs"
    /\ i' = 1
    /\ UNCHANGED <<rest, stores, informs, j, cur, res, faults, born>>

\* lines 126-128: informs = File2DocumentService.get_by_file_id(file_id)
F2dRmInforms ==
    /\ pc = "f2drm_informs"
    /\ IF DocsOfFile(req.file_ids[i]) = <<>>
       THEN /\ Respond("Inform not found!")
            /\ UNCHANGED <<informs, j>>
       ELSE /\ informs' = DocsOfFile(req.file_ids[i])
            /\ j' = 1
            /\ pc' = "f2drm_dellinks"
            /\ res' = res
    /\ UNCHANGED <<rest, stores, req, i, cur, made, errors, nops, faults, faulted,
                   born>>

\* line 132: File2DocumentService.delete_by_file_id(file_id)
F2dRmDelLinks ==
    /\ pc = "f2drm_dellinks"
    /\ f2d' = f2d \ LinksOfFile(req.file_ids[i])
    /\ pc' = "f2drm_doc"
    /\ UNCHANGED <<rest, docs, tasks, kbs, files, blobs, idx, idxExists, queue,
                   locals, res, nops, faults, faulted, born>>

\* lines 133-143: the Document and its tenant are read, then
\* DocumentService.remove_document; line 144 after the last file
F2dRmDoc ==
    /\ pc = "f2drm_doc"
    /\ LET d == informs[j] IN
       IF docs[d] = NoDoc
       THEN /\ Respond("Document not found!")
            /\ UNCHANGED <<docs, idx, kbs, i, j>>
       ELSE IF get_tenant_id(d) = "none"
       THEN /\ Respond("Tenant not found!")
            /\ UNCHANGED <<docs, idx, kbs, i, j>>
       ELSE /\ docs' = remove_document_docs(d)
            /\ idx' = remove_document_idx(d)
            /\ kbs' = remove_document_kbs(d)
            /\ IF j < Len(informs)
               THEN /\ j' = j + 1
                    /\ pc' = "f2drm_dellinks"
                    /\ UNCHANGED <<i, res>>
               ELSE IF i < Len(req.file_ids)
               THEN /\ i' = i + 1
                    /\ pc' = "f2drm_informs"
                    /\ UNCHANGED <<j, res>>
               ELSE /\ Respond("ok")
                    /\ UNCHANGED <<i, j>>
    /\ UNCHANGED <<rest, tasks, files, f2d, blobs, idxExists, queue, req, informs,
                   cur, made, errors, nops, faults, faulted, born>>

\* lines 145-146
F2dRmExcept ==
    /\ pc \in {"f2drm_informs", "f2drm_dellinks", "f2drm_doc"}
    /\ Raise
    /\ Respond("exception")
    /\ UNCHANGED <<rest, stores, locals, nops, born>>

F2dRm ==
    \/ \E fids \in [1..1 -> LinkableFiles] : F2dRmStart(fids)
    \/ F2dRmInforms
    \/ F2dRmDelLinks
    \/ F2dRmDoc
    \/ F2dRmExcept

\* ------------------------------------------------- fresh ids (get_uuid)
FreshIds == {d \in DocIds : born[d] = NoAddr}
FreshId == CHOOSE d \in FreshIds : \A e \in FreshIds : d <= e

\* ------------------------------ file2document_app.convert (conversion)
\* lines 40-46
ConvertStart(fids, kids) ==
    /\ Enter([op |-> "convert", file_ids |-> fids, kb_ids |-> kids])
    /\ Cardinality(FreshIds) >= Len(fids) * Len(kids)
    /\ pc' = "conv_file"
    /\ i' = 1
    /\ UNCHANGED <<rest, stores, informs, j, cur, res, faults, born>>

\* the loops of lines 46 and 70 move on; line 103 after the last file
ConvertAdvance ==
    IF j < Len(req.kb_ids)
    THEN /\ j' = j + 1
         /\ pc' = "conv_insdoc"
         /\ UNCHANGED <<i, res>>
    ELSE IF i < Len(req.file_ids)
    THEN /\ i' = i + 1
         /\ pc' = "conv_file"
         /\ UNCHANGED <<j, res>>
    ELSE /\ Respond("ok")
         /\ UNCHANGED <<rest, i, j>>

\* lines 47-53: the File is read (file.type of a missing File raises), then
\* informs = File2DocumentService.get_by_file_id(id)
ConvertFile ==
    /\ pc = "conv_file"
    /\ IF files[req.file_ids[i]] = NoFile
       THEN /\ Respond("exception")
            /\ UNCHANGED <<informs, j>>
       ELSE /\ informs' = DocsOfFile(req.file_ids[i])
            /\ j' = 1
            /\ pc' = IF DocsOfFile(req.file_ids[i]) = <<>>
                     THEN "conv_dellinks" ELSE "conv_old"
            /\ res' = res
    /\ UNCHANGED <<rest, stores, req, i, cur, made, errors, nops, faults, faulted,
                   born>>

\* lines 55-66: each Document the File is linked to is removed
ConvertOld ==
    /\ pc = "conv_old"
    /\ LET d == informs[j] IN
       IF docs[d] = NoDoc
       THEN /\ Respond("Document not found!")
            /\ UNCHANGED <<docs, idx, kbs, j>>
       ELSE IF get_tenant_id(d) = "none"
       THEN /\ Respond("Tenant not found!")
            /\ UNCHANGED <<docs, idx, kbs, j>>
       ELSE /\ docs' = remove_document_docs(d)
            /\ idx' = remove_document_idx(d)
            /\ kbs' = remove_document_kbs(d)
            /\ j' = j + 1
            /\ pc' = IF j < Len(informs) THEN "conv_old" ELSE "conv_dellinks"
            /\ res' = res
    /\ UNCHANGED <<rest, tasks, files, f2d, blobs, idxExists, queue, req, i,
                   informs, cur, made, errors, nops, faults, faulted, born>>

\* line 67: File2DocumentService.delete_by_file_id(id)
ConvertDelLinks ==
    /\ pc = "conv_dellinks"
    /\ f2d' = f2d \ LinksOfFile(req.file_ids[i])
    /\ j' = 1
    /\ pc' = "conv_insdoc"
    /\ UNCHANGED <<rest, docs, tasks, kbs, files, blobs, idx, idxExists, queue,
                   req, i, informs, cur, made, errors, res, nops, faults,
                   faulted, born>>

\* lines 71-94: the KB and the File are read; DocumentService.insert of a
\* Document that copies the File's type, name, location and size
ConvertInsDoc ==
    /\ pc = "conv_insdoc"
    /\ LET k == req.kb_ids[j]
           f == req.file_ids[i]
       IN
       IF ~kbs[k].live
       THEN /\ Respond("Can't find this knowledgebase!")
            /\ UNCHANGED <<docs, made, born>>
       ELSE IF files[f] = NoFile
       THEN /\ Respond("Can't find this file!")
            /\ UNCHANGED <<docs, made, born>>
       ELSE /\ docs' = [docs EXCEPT ![FreshId] =
                          NewDoc(k, files[f].type, files[f].name,
                                 files[f].location)]
            /\ made' = Append(made, FreshId)
            /\ born' = [born EXCEPT ![FreshId] =
                          IF files[f].source_type = LOCAL_SOURCE
                          THEN <<files[f].parent_id, files[f].location>>
                          ELSE <<KbBucket(k), files[f].location>>]
            /\ pc' = "conv_inslink"
            /\ res' = res
    /\ UNCHANGED <<rest, tasks, kbs, files, f2d, blobs, idx, idxExists, queue, req,
                   i, informs, j, cur, errors, nops, faults, faulted>>

\* lines 95-102: File2DocumentService.insert of the link
ConvertInsLink ==
    /\ pc = "conv_inslink"
    /\ f2d' = f2d \cup {[file_id |-> req.file_ids[i],
                         document_id |-> made[Len(made)]]}
    /\ ConvertAdvance
    /\ UNCHANGED <<rest, docs, tasks, kbs, files, blobs, idx, idxExists, queue,
                   req, informs, cur, made, errors, nops, faults, faulted,
                   born>>

\* lines 104-105
ConvertExcept ==
    /\ pc \in {"conv_file", "conv_old", "conv_dellinks", "conv_insdoc",
               "conv_inslink"}
    /\ Raise
    /\ Respond("exception")
    /\ UNCHANGED <<rest, stores, locals, nops, born>>

Convert ==
    \/ \E fids \in [1..1 -> LinkableFiles],
          kids \in UNION {[1..n -> KbIds] : n \in 1..MaxKbs} :
          ConvertStart(fids, kids)
    \/ ConvertFile
    \/ ConvertOld
    \/ ConvertDelLinks
    \/ ConvertInsDoc
    \/ ConvertInsLink
    \/ ConvertExcept

\* conversions alone: every link and every Document a request finds was
\* made at the start or by an earlier conversion
NextConvert ==
    \/ Convert
    \/ Return

SpecConvert == Init /\ [][NextConvert]_vars

\* --------------------------------------------- document_app.web_crawl
\* duplicate_name(DocumentService.query, name=nm, kb_id=k), on names
\* "b(c).pdf": the counter is incremented until no Document of the KB has
\* the name
NameTaken(k, nm) ==
    \E d \in DocIds : docs[d] # NoDoc /\ docs[d].kb = k /\ docs[d].name = nm

RECURSIVE duplicate_name(_, _)
duplicate_name(k, nm) ==
    IF NameTaken(k, nm) THEN duplicate_name(k, [nm EXCEPT !.c = @ + 1]) ELSE nm

\* lines 106-133: the KB is read (a missing one raises LookupError), the
\* page is downloaded, and the KB's private root folder is made if missing
WebCrawlStart(k, b) ==
    /\ Enter([op |-> "web_crawl", kb_id |-> k, name |-> b])
    /\ FreshIds # {}
    /\ IF ~kbs[k].live
       THEN /\ Respond("exception")
            /\ files' = files
       ELSE /\ files' = [files EXCEPT ![KbFolder(k)] =
                           [source_type |-> KNOWLEDGEBASE, type |-> FOLDER,
                            parent_id |-> DirBucket, location |-> NoLoc,
                            name |-> KbName(k)]]
            /\ pc' = "crawl_name"
            /\ res' = res
    /\ UNCHANGED <<rest, docs, tasks, kbs, f2d, blobs, idx, idxExists, queue, i,
                   informs, j, cur, faults, born>>

\* lines 136-143: filename = duplicate_name(...); location = filename
WebCrawlName ==
    /\ pc = "crawl_name"
    /\ cur' = [filename |-> duplicate_name(req.kb_id, Name(req.name, 0)),
               location |->
                   Key(duplicate_name(req.kb_id, Name(req.name, 0)), 0)]
    /\ pc' = "crawl_probe"
    /\ UNCHANGED <<rest, stores, req, i, informs, j, made, errors, res, nops,
                   faults, faulted, born>>

\* lines 144-145: while STORAGE_IMPL.obj_exist(kb_id, location):
\*                    location += "_"
WebCrawlProbe ==
    /\ pc = "crawl_probe"
    /\ IF <<KbBucket(req.kb_id), cur.location>> \in blobs
       THEN /\ cur' = [cur EXCEPT !.location.us = @ + 1]
            /\ pc' = pc
       ELSE /\ pc' = "crawl_put"
            /\ cur' = cur
    /\ UNCHANGED <<rest, stores, req, i, informs, j, made, errors, res, nops,
                   faults, faulted, born>>

\* a crawl that stores no blob (what C4 rules out)
WebCrawlPutNothing ==
    /\ pc = "crawl_put"
    /\ pc' = "crawl_insert"
    /\ UNCHANGED <<rest, stores, locals, res, nops, faults, faulted, born>>

\* line 146: STORAGE_IMPL.put(kb_id, location, blob)
WebCrawlPut ==
    /\ pc = "crawl_put"
    /\ blobs' = blobs \cup {<<KbBucket(req.kb_id), cur.location>>}
    /\ pc' = "crawl_insert"
    /\ UNCHANGED <<rest, docs, tasks, kbs, files, f2d, idx, idxExists, queue,
                   locals, res, nops, faults, faulted, born>>

\* lines 147-167: DocumentService.insert(doc)
WebCrawlInsert ==
    /\ pc = "crawl_insert"
    /\ docs' = [docs EXCEPT ![FreshId] =
                  NewDoc(req.kb_id, PDF, cur.filename, cur.location)]
    /\ made' = Append(made, FreshId)
    /\ born' = [born EXCEPT ![FreshId] =
                  <<KbBucket(req.kb_id), cur.location>>]
    /\ pc' = "crawl_addfile"
    /\ UNCHANGED <<rest, tasks, kbs, files, f2d, blobs, idx, idxExists, queue, req,
                   i, informs, j, cur, errors, res, nops, faults, faulted>>

\* line 168: FileService.add_file_from_kb(doc, kb_folder["id"], tenant_id)
\* makes the knowledge-base-private File of the Document and links it
WebCrawlAddFile ==
    /\ pc = "crawl_addfile"
    /\ LET d == made[Len(made)] IN
       /\ files' = [files EXCEPT ![KbFile(d)] =
                      [source_type |-> KNOWLEDGEBASE, type |-> PDF,
                       parent_id |-> KbBucket(req.kb_id),
                       location |-> cur.location, name |-> cur.filename]]
       /\ f2d' = f2d \cup {[file_id |-> KbFile(d), document_id |-> d]}
    /\ Respond("ok")
    /\ UNCHANGED <<rest, docs, tasks, kbs, blobs, idx, idxExists, queue, locals,
                   nops, faults, faulted, born>>

\* lines 169-170
WebCrawlExcept ==
    /\ pc \in {"crawl_name", "crawl_probe", "crawl_put", "crawl_insert",
               "crawl_addfile"}
    /\ Raise
    /\ Respond("exception")
    /\ UNCHANGED <<rest, stores, locals, nops, born>>

WebCrawl ==
    \/ \E k \in KbIds : WebCrawlStart(k, "a")
    \/ WebCrawlName
    \/ WebCrawlProbe
    \/ WebCrawlPut
    \/ WebCrawlInsert
    \/ WebCrawlAddFile
    \/ WebCrawlExcept

Next ==
    \/ DocRm
    \/ KbRm
    \/ F2dRm
    \/ Convert
    \/ WebCrawl
    \/ Return

Spec == Init /\ [][Next]_vars

\* the Delete operation alone: every request is a document_app.rm, so a
\* partial state can only be one an earlier Delete left
NextDelete ==
    \/ DocRm
    \/ Return

SpecDelete == Init /\ [][NextDelete]_vars

\* ------------------------------------------------ document_app.run (Run)
\* the ids a run / change_status / change_parser request may name: the
\* Documents, and one id no Document has
NamedDocs == 1..(InitDocs + 1)

\* the for loop of line 487 moves to the next id; line 518 after the last
RunAdvance ==
    IF i < Len(req.doc_ids)
    THEN /\ i' = i + 1
         /\ pc' = "run_update"
         /\ res' = res
    ELSE /\ Respond("ok")
         /\ i' = i

\* lines 478-486: the authorization loop over all ids
RunStart(ids, r, del) ==
    /\ Enter([op |-> "run", doc_ids |-> ids, run |-> r, delete |-> del])
    /\ IF \E n \in 1..Len(ids) : ~accessible(ids[n])
       THEN /\ Respond("No authorization.")
            /\ i' = 0
       ELSE /\ pc' = "run_update"
            /\ i' = 1
            /\ res' = res
    /\ UNCHANGED <<rest, stores, informs, j, cur, faults, born>>

\* an info that zeroes the counts whatever run and delete are (what C15
\* rules out)
RunInfoAlwaysCleared(doc, r, del) ==
    [doc EXCEPT !.run = r, !.progress = 0, !.progress_msg = "",
                !.chunk_num = 0, !.token_num = 0]

\* lines 488-493: info = {run, progress: 0}, and with run == RUNNING and
\* delete also progress_msg "", chunk_num 0, token_num 0;
\* DocumentService.update_by_id(id, info)
RunInfo(doc, r, del) ==
    IF r = RUNNING /\ del
    THEN [doc EXCEPT !.run = r, !.progress = 0, !.progress_msg = "",
                     !.chunk_num = 0, !.token_num = 0]
    ELSE [doc EXCEPT !.run = r, !.progress = 0]

RunUpdate ==
    /\ pc = "run_update"
    /\ LET d == req.doc_ids[i] IN
       docs' = IF docs[d] = NoDoc THEN docs
               ELSE [docs EXCEPT ![d] = RunInfo(docs[d], req.run, req.delete)]
    /\ pc' = "run_lookup"
    /\ UNCHANGED <<rest, tasks, kbs, files, f2d, blobs, idx, idxExists, queue,
                   locals, res, nops, faults, faulted, born>>

\* lines 494-500 and 509: the tenant and the Document are read; a missing
\* one makes the handler return
RunLookup ==
    /\ pc = "run_lookup"
    /\ LET d == req.doc_ids[i] IN
       IF get_tenant_id(d) = "none"
       THEN /\ Respond("Tenant not found!")
            /\ i' = i
       ELSE IF docs[d] = NoDoc
       THEN /\ Respond("Document not found!")
            /\ i' = i
       ELSE IF req.delete
       THEN /\ pc' = "run_deltasks"
            /\ UNCHANGED <<i, res>>
       ELSE IF req.run = RUNNING
       THEN /\ pc' = "run_enqueue"
            /\ UNCHANGED <<i, res>>
       ELSE RunAdvance
    /\ UNCHANGED <<rest, stores, req, informs, j, cur, made, errors, nops, faults,
                   faulted, born>>

\* line 501: TaskService.filter_delete([Task.doc_id == id])
RunDelTasks ==
    /\ pc = "run_deltasks"
    /\ tasks' = DeleteTasks(req.doc_ids[i])
    /\ pc' = "run_delindex"
    /\ UNCHANGED <<rest, docs, kbs, files, f2d, blobs, idx, idxExists, queue,
                   locals, res, nops, faults, faulted, born>>

\* a Run that leaves the index entries in place (what C1 rules out)
IndexDeleteDocSkipped(d) == idx

\* lines 502-507: if docStoreConn.indexExist(index, kb_id):
\*                    docStoreConn.delete({"doc_id": id}, index, kb_id)
IndexDeleteDoc(d) == IF idxExists THEN [idx EXCEPT ![d] = NoIdx] ELSE idx

RunDelIndex ==
    /\ pc = "run_delindex"
    /\ idx' = IndexDeleteDoc(req.doc_ids[i])
    /\ IF req.run = RUNNING
       THEN /\ pc' = "run_enqueue"
            /\ UNCHANGED <<i, res>>
       ELSE RunAdvance
    /\ UNCHANGED <<rest, docs, tasks, kbs, files, f2d, blobs, idxExists, queue,
                   req, informs, j, cur, made, errors, nops, faults, faulted,
                   born>>

\* a payload that takes the KB for the bucket instead of the resolved
\* storage address (what C16 rules out)
TaskPayloadKbBucket(d) ==
    [doc_id |-> d, doc |-> docs[d], tenant_id |-> get_tenant_id(d),
     bucket |-> KbBucket(docs[d].kb), name |-> docs[d].location]

\* lines 510-516: the Document is read again, tenant_id and the storage
\* address are added, and queue_tasks(doc, bucket, name) makes a Task row
\* and puts the payload on the queue
TaskPayload(d) ==
    [doc_id |-> d, doc |-> docs[d], tenant_id |-> get_tenant_id(d),
     bucket |-> get_storage_address(d)[1], name |-> get_storage_address(d)[2]]

RunEnqueue ==
    /\ pc = "run_enqueue"
    /\ LET d == req.doc_ids[i] IN
       /\ queue' = Append(queue, TaskPayload(d))
       /\ tasks' = [tasks EXCEPT ![d] = @ + 1]
    /\ RunAdvance
    /\ UNCHANGED <<rest, docs, kbs, files, f2d, blobs, idx, idxExists, req,
                   informs, j, cur, made, errors, nops, faults, faulted, born>>

\* lines 519-520: any exception ends the whole request with a server error
RunExcept ==
    /\ pc \in {"run_update", "run_lookup", "run_deltasks", "run_delindex",
               "run_enqueue"}
    /\ Raise
    /\ Respond("exception")
    /\ UNCHANGED <<rest, stores, locals, nops, born>>

Run ==
    \/ \E ids \in UNION {[1..n -> NamedDocs] : n \in 1..MaxRunBatch},
          r \in {RUNNING, CANCEL},
          del \in BOOLEAN : RunStart(ids, r, del)
    \/ RunUpdate
    \/ RunLookup
    \/ RunDelTasks
    \/ RunDelIndex
    \/ RunEnqueue
    \/ RunExcept

\* run alone, with every value of api.db.TaskStatus for req["run"] (the
\* handler takes whatever string it is sent, line 488)
RunAny ==
    \/ \E ids \in UNION {[1..n -> NamedDocs] : n \in 1..MaxRunBatch},
          r \in RunValues,
          del \in BOOLEAN : RunStart(ids, r, del)
    \/ RunUpdate
    \/ RunLookup
    \/ RunDelTasks
    \/ RunDelIndex
    \/ RunEnqueue
    \/ RunExcept

NextRunOnly ==
    \/ RunAny
    \/ Return

SpecRunOnly == Init /\ [][NextRunOnly]_vars

\* ------------------------------ document_app.change_status (ChangeStatus)
\* int(req["status"]) of the strings "0" and "1"
StatusInt(st) == IF st = "1" THEN 1 ELSE 0

\* lines 352-373: status must be "0" or "1"; authorization; the Document
\* and its KB are read
ChangeStatusStart(d, st) ==
    /\ Enter([op |-> "change_status", doc_id |-> d, status |-> st])
    /\ IF st \notin {"0", "1"}
       THEN Respond("\"Status\" must be either 0 or 1!")
       ELSE IF ~accessible(d)
       THEN Respond("No authorization.")
       ELSE /\ pc' = "cs_update"
            /\ res' = res
    /\ UNCHANGED <<rest, stores, i, informs, j, cur, faults, born>>

\* a ChangeStatus that has not written the status when it patches the index
\* (what C10's order rules out)
ChangeStatusUpdateLate ==
    /\ pc = "cs_update"
    /\ pc' = "cs_patch"
    /\ UNCHANGED <<rest, stores, req, i, informs, j, cur, made, errors, res, nops,
                   faults, faulted, born>>

\* lines 375-378: DocumentService.update_by_id(doc_id, {"status": status})
ChangeStatusUpdate ==
    /\ pc = "cs_update"
    /\ LET d == req.doc_id IN
       IF docs[d] = NoDoc
       THEN /\ Respond("Database error (Document update)!")
            /\ docs' = docs
       ELSE /\ docs' = [docs EXCEPT ![d].status = req.status]
            /\ pc' = "cs_patch"
            /\ res' = res
    /\ UNCHANGED <<rest, tasks, kbs, files, f2d, blobs, idx, idxExists, queue,
                   locals, nops, faults, faulted, born>>

\* docStoreConn.update({"doc_id": d}, {"available_int": v}, index, kb_id)
IndexPatchAvailable(d, v) ==
    IF idx[d].n > 0 THEN [idx EXCEPT ![d].available_int = v] ELSE idx

\* lines 380-387: the index patch, then success
ChangeStatusPatch ==
    /\ pc = "cs_patch"
    /\ idx' = IndexPatchAvailable(req.doc_id, StatusInt(req.status))
    /\ Respond("ok")
    /\ UNCHANGED <<rest, docs, tasks, kbs, files, f2d, blobs, idxExists, queue,
                   locals, nops, faults, faulted, born>>

\* lines 388-389
ChangeStatusExcept ==
    /\ pc \in {"cs_update", "cs_patch"}
    /\ Raise
    /\ Respond("exception")
    /\ errors' = <<pc>>
    /\ UNCHANGED <<rest, stores, req, i, informs, j, cur, made, nops, born>>

ChangeStatus ==
    \/ \E d \in NamedDocs, st \in {"0", "1", "2"} : ChangeStatusStart(d, st)
    \/ ChangeStatusUpdate
    \/ ChangeStatusPatch
    \/ ChangeStatusExcept

\* ------------------------------ document_app.change_parser (ChangeParser)
\* a name check that knows no presentation suffix (what C12 rules out)
IsPresentationNameNever(nm) == FALSE

IsPresentationName(nm) == nm.ext \in {"ppt", "pptx", "pages"}

\* a change_parser without the shortcut of lines 638-643 (what C11 rules
\* out): the same parser and config go on to the update
ChangeParserStartNoShortcut(d, parser, config) ==
    /\ Enter([op |-> "change_parser", doc_id |-> d, parser_id |-> parser,
              parser_config |-> config])
    /\ IF ~accessible(d)
       THEN /\ Respond("No authorization.")
            /\ cur' = cur
       ELSE IF (docs[d].type = VISUAL /\ parser # "picture")
               \/ (IsPresentationName(docs[d].name)
                   /\ parser # "presentation")
       THEN /\ Respond("Not supported yet!")
            /\ cur' = cur
       ELSE /\ pc' = "cp_update"
            /\ cur' = docs[d]
            /\ res' = res
    /\ UNCHANGED <<rest, stores, i, informs, j, faults, born>>

\* lines 626-649: authorization; the Document is read; the same parser with
\* the same or no parser_config is success at once; a visual Document takes
\* only "picture", a presentation-named one only "presentation"
ChangeParserStart(d, parser, config) ==
    /\ Enter([op |-> "change_parser", doc_id |-> d, parser_id |-> parser,
              parser_config |-> config])
    /\ IF ~accessible(d)
       THEN /\ Respond("No authorization.")
            /\ cur' = cur
       ELSE IF lower(docs[d].parser_id) = lower(parser)
               /\ (config = "absent" \/ config = docs[d].parser_config)
       THEN /\ Respond("ok")
            /\ cur' = cur
       ELSE IF (docs[d].type = VISUAL /\ parser # "picture")
               \/ (IsPresentationName(docs[d].name)
                   /\ parser # "presentation")
       THEN /\ Respond("Not supported yet!")
            /\ cur' = cur
       ELSE /\ pc' = "cp_update"
            /\ cur' = docs[d]
            /\ res' = res
    /\ UNCHANGED <<rest, stores, i, informs, j, faults, born>>

\* lines 651-661: DocumentService.update_by_id(doc.id, {parser_id,
\* progress: 0, progress_msg: "", run: UNSTART})
ChangeParserUpdate ==
    /\ pc = "cp_update"
    /\ LET d == req.doc_id IN
       IF docs[d] = NoDoc
       THEN /\ Respond("Document not found!")
            /\ docs' = docs
       ELSE /\ docs' = [docs EXCEPT ![d].parser_id = req.parser_id,
                                    ![d].progress = 0,
                                    ![d].progress_msg = "",
                                    ![d].run = UNSTART]
            /\ IF req.parser_config # "absent"
               THEN pc' = "cp_config" /\ res' = res
               ELSE IF cur.token_num > 0
               THEN pc' = "cp_counts" /\ res' = res
               ELSE Respond("ok")
    /\ UNCHANGED <<rest, tasks, kbs, files, f2d, blobs, idx, idxExists, queue,
                   locals, nops, faults, faulted, born>>

\* lines 662-663: DocumentService.update_parser_config(doc.id, config)
ChangeParserConfig ==
    /\ pc = "cp_config"
    /\ LET d == req.doc_id IN
       docs' = IF docs[d] = NoDoc THEN docs
               ELSE [docs EXCEPT ![d].parser_config = req.parser_config]
    /\ IF cur.token_num > 0
       THEN pc' = "cp_counts" /\ res' = res
       ELSE Respond("ok")
    /\ UNCHANGED <<rest, tasks, kbs, files, f2d, blobs, idx, idxExists, queue,
                   locals, nops, faults, faulted, born>>

\* DocumentService.increment_chunk_num(doc_id, kb_id, token, chunk, dur):
\* the counts are added to the Document's and to its KB's counters
increment_chunk_num_docs(d, token, chunk) ==
    [docs EXCEPT ![d].token_num = @ + token, ![d].chunk_num = @ + chunk]
increment_chunk_num_kbs(k, token, chunk) ==
    [kbs EXCEPT ![k].token_num = @ + token, ![k].chunk_num = @ + chunk]

\* a change_parser that takes the tokens off the counters but not the
\* chunks (what C13 rules out)
ChangeParserCountsTokensOnly ==
    /\ pc = "cp_counts"
    /\ LET d == req.doc_id IN
       /\ docs' = increment_chunk_num_docs(d, cur.token_num * (-1), 0)
       /\ kbs' = increment_chunk_num_kbs(cur.kb, cur.token_num * (-1), 0)
       /\ pc' = "cp_index"
       /\ res' = res
    /\ UNCHANGED <<rest, tasks, files, f2d, blobs, idx, idxExists, queue, locals,
                   nops, faults, faulted, born>>

\* lines 664-673: with doc.token_num > 0 the Document's counts are taken off
ChangeParserCounts ==
    /\ pc = "cp_counts"
    /\ LET d == req.doc_id IN
       IF docs[d] = NoDoc
       THEN /\ Respond("Document not found!")
            /\ UNCHANGED <<docs, kbs>>
       ELSE /\ docs' = increment_chunk_num_docs(d, cur.token_num * (-1),
                                                cur.chunk_num * (-1))
            /\ kbs' = increment_chunk_num_kbs(cur.kb, cur.token_num * (-1),
                                              cur.chunk_num * (-1))
            /\ pc' = "cp_index"
            /\ res' = res
    /\ UNCHANGED <<rest, tasks, files, f2d, blobs, idx, idxExists, queue, locals,
                   nops, faults, faulted, born>>

\* lines 674-684: the tenant is read; the Document's index entries are
\* deleted if the tenant's index exists
ChangeParserIndex ==
    /\ pc = "cp_index"
    /\ IF get_tenant_id(req.doc_id) = "none"
       THEN /\ Respond("Tenant not found!")
            /\ idx' = idx
       ELSE /\ idx' = IndexDeleteDoc(req.doc_id)
            /\ Respond("ok")
    /\ UNCHANGED <<rest, docs, tasks, kbs, files, f2d, blobs, idxExists, queue,
                   locals, nops, faults, faulted, born>>

\* lines 685-686
ChangeParserExcept ==
    /\ pc \in {"cp_update", "cp_config", "cp_counts", "cp_index"}
    /\ Raise
    /\ Respond("exception")
    /\ UNCHANGED <<rest, stores, locals, nops, born>>

ChangeParser ==
    \/ \E d \in NamedDocs, parser \in {"naive", "book"},
          config \in {"absent", "c0", "c1"} :
          ChangeParserStart(d, parser, config)
    \/ ChangeParserUpdate
    \/ ChangeParserConfig
    \/ ChangeParserCounts
    \/ ChangeParserIndex
    \/ ChangeParserExcept

\* change_parser alone, over Documents of every type and with every parser
\* id the checks of lines 638-649 tell apart
ParserDocKinds ==
    {"crawled_parsed", "crawled_visual", "crawled_slides", "virtual"}

ParserIds == {"naive", "Naive", "book", "picture", "presentation"}

InitParser ==
    /\ \E kind \in [1..InitDocs -> ParserDocKinds] : InitStores(kind)
    /\ InitLocals

ChangeParserAny ==
    \/ \E d \in NamedDocs, parser \in ParserIds,
          config \in {"absent", "c0", "c1"} :
          ChangeParserStart(d, parser, config)
    \/ ChangeParserUpdate
    \/ ChangeParserConfig
    \/ ChangeParserCounts
    \/ ChangeParserIndex
    \/ ChangeParserExcept

NextParser ==
    \/ ChangeParserAny
    \/ Return

SpecParser == InitParser /\ [][NextParser]_vars

NextRun ==
    \/ Run
    \/ ChangeStatus
    \/ ChangeParser
    \/ Return

SpecRun == Init /\ [][NextRun]_vars

\* Delete and Run, the two operations that take a batch of document ids
NextAuth ==
    \/ DocRm
    \/ Run
    \/ Return

SpecAuth == Init /\ [][NextAuth]_vars

\* ------------------------------------------ document_app.rename (Rename)
\* the names a rename or create request may carry
ReqNames ==
    {NameExt(b, c, ext) : b \in {"a", "z"}, c \in {0, 1},
                          ext \in {"pdf", "PDF", "txt"}}

\* pathlib.Path(name).suffix
suffix(nm) == nm.ext

\* a rename that lets every suffix pass (what C17 rules out)
SuffixDiffersNever(new, old) == FALSE

\* lines 552-555: the suffixes are compared in lower case
SuffixDiffers(new, old) == lower(suffix(new)) # lower(suffix(old))

\* a rename that looks for the name in no knowledge base (what C18 rules
\* out)
RenameDuplicateNever(k, nm) == FALSE

\* lines 561-562: DocumentService.query(name=nm, kb_id=k), then the exact
\* comparison d.name == nm
RenameDuplicate(k, nm) == NameTaken(k, nm)

\* lines 541-565: authorization; the Document is read; the suffix must
\* stay; no Document of the KB may have the new name
RenameStart(d, nm) ==
    /\ Enter([op |-> "rename", doc_id |-> d, name |-> nm])
    /\ IF ~accessible(d)
       THEN Respond("No authorization.")
       ELSE IF SuffixDiffers(nm, docs[d].name)
       THEN Respond("The extension of file can't be changed")
       ELSE IF RenameDuplicate(docs[d].kb, nm)
       THEN Respond("Duplicated document name in the same knowledgebase.")
       ELSE /\ pc' = "rn_update"
            /\ res' = res
    /\ UNCHANGED <<rest, stores, i, informs, j, cur, faults, born>>

\* lines 567-568: DocumentService.update_by_id(doc_id, {"name": name})
RenameUpdate ==
    /\ pc = "rn_update"
    /\ LET d == req.doc_id IN
       IF docs[d] = NoDoc
       THEN /\ Respond("Database error (Document rename)!")
            /\ docs' = docs
       ELSE /\ docs' = [docs EXCEPT ![d].name = req.name]
            /\ pc' = "rn_link"
            /\ res' = res
    /\ UNCHANGED <<rest, tasks, kbs, files, f2d, blobs, idx, idxExists, queue,
                   locals, nops, faults, faulted, born>>

\* lines 570-572: informs = get_by_document_id(doc_id); without a link the
\* handler is done; else the File of the first link is read
RenameLink ==
    /\ pc = "rn_link"
    /\ IF LinksOfDoc(req.doc_id) = {}
       THEN Respond("ok")
       ELSE /\ pc' = "rn_file"
            /\ res' = res
    /\ UNCHANGED <<rest, stores, locals, nops, faults, faulted, born>>

\* line 573: FileService.update_by_id(file.id, {"name": name}); file.id of
\* a File that is not there raises AttributeError, which line 576 catches
RenameFile ==
    /\ pc = "rn_file"
    /\ LET f == FirstLink(req.doc_id).file_id IN
       IF files[f] = NoFile
       THEN /\ Respond("exception")
            /\ files' = files
       ELSE /\ files' = [files EXCEPT ![f].name = req.name]
            /\ Respond("ok")
    /\ UNCHANGED <<rest, docs, tasks, kbs, f2d, blobs, idx, idxExists, queue,
                   locals, nops, faults, faulted, born>>

\* lines 576-577
RenameExcept ==
    /\ pc \in {"rn_update", "rn_link", "rn_file"}
    /\ Raise
    /\ Respond("exception")
    /\ errors' = <<pc>>
    /\ UNCHANGED <<rest, stores, req, i, informs, j, cur, made, nops, born>>

Rename ==
    \/ \E d \in NamedDocs, nm \in ReqNames : RenameStart(d, nm)
    \/ RenameUpdate
    \/ RenameLink
    \/ RenameFile
    \/ RenameExcept

\* ----------------------------------- document_app.create (CreateVirtual)
\* lines 188-194: a kb_id that is false (0 here) is refused
CreateStart(k, nm) ==
    /\ Enter([op |-> "create", kb_id |-> k, name |-> nm])
    /\ Cardinality(FreshIds) >= 1
    /\ IF k = 0
       THEN Respond("Lack of \"KB ID\"")
       ELSE /\ pc' = "cr_check"
            /\ res' = res
    /\ UNCHANGED <<rest, stores, i, informs, j, cur, faults, born>>

\* lines 195-203: the KB is read; DocumentService.query(name, kb_id) must
\* find nothing
CreateCheck ==
    /\ pc = "cr_check"
    /\ IF ~kbs[req.kb_id].live
       THEN Respond("Can't find this knowledgebase!")
       ELSE IF NameTaken(req.kb_id, req.name)
       THEN Respond("Duplicated document name in the same knowledgebase.")
       ELSE /\ pc' = "cr_insert"
            /\ res' = res
    /\ UNCHANGED <<rest, stores, locals, nops, faults, faulted, born>>

\* lines 205-218: DocumentService.insert of the virtual Document
CreateInsert ==
    /\ pc = "cr_insert"
    /\ docs' = [docs EXCEPT ![FreshId] = CreateDoc(req.kb_id, req.name)]
    /\ made' = Append(made, FreshId)
    /\ born' = [born EXCEPT ![FreshId] = <<KbBucket(req.kb_id), NoLoc>>]
    /\ Respond("ok")
    /\ UNCHANGED <<rest, tasks, kbs, files, f2d, blobs, idx, idxExists, queue, req,
                   i, informs, j, cur, errors, nops, faults, faulted>>

\* lines 219-220
CreateExcept ==
    /\ pc \in {"cr_check", "cr_insert"}
    /\ Raise
    /\ Respond("exception")
    /\ errors' = <<pc>>
    /\ UNCHANGED <<rest, stores, req, i, informs, j, cur, made, nops, born>>

Create ==
    \/ \E k \in KbIds \cup {0}, nm \in ReqNames : CreateStart(k, nm)
    \/ CreateCheck
    \/ CreateInsert
    \/ CreateExcept

NextName ==
    \/ Rename
    \/ Create
    \/ Return

SpecName == Init /\ [][NextName]_vars

\* ------------------------------ document_app.web_crawl on a second thread
\* run_simple(..., threaded=True) serves each request on its own thread: a
\* second web_crawl runs the same lines interleaved with the request in
\* flight.  Its locals kb_id, filename, location are the fields of peer.
WebCrawlPeer ==
    /\ \/ \* lines 106-133
          /\ peer = NoPeer
          /\ nops < MaxOps
          /\ FreshIds # {}
          /\ nops' = nops + 1
          /\ \E k \in KbIds :
               /\ kbs[k].live
               /\ files' = [files EXCEPT ![KbFolder(k)] =
                              [source_type |-> KNOWLEDGEBASE, type |-> FOLDER,
                               parent_id |-> DirBucket, location |-> NoLoc,
                               name |-> KbName(k)]]
               /\ peer' = [pc |-> "crawl_name", kb_id |-> k,
                           filename |-> Name("a", 0),
                           location |-> Key(Name("a", 0), 0), doc |-> 0]
          /\ UNCHANGED <<docs, f2d, blobs, born>>
       \/ \* lines 136-143
          /\ peer.pc = "crawl_name"
          /\ peer' = [peer EXCEPT
                        !.pc = "crawl_probe",
                        !.filename = duplicate_name(peer.kb_id, Name("a", 0)),
                        !.location =
                            Key(duplicate_name(peer.kb_id, Name("a", 0)), 0)]
          /\ UNCHANGED <<docs, files, f2d, blobs, born, nops>>
       \/ \* lines 144-145
          /\ peer.pc = "crawl_probe"
          /\ peer' = IF <<KbBucket(peer.kb_id), peer.location>> \in blobs
                     THEN [peer EXCEPT !.location.us = @ + 1]
                     ELSE [peer EXCEPT !.pc = "crawl_put"]
          /\ UNCHANGED <<docs, files, f2d, blobs, born, nops>>
       \/ \* line 146
          /\ peer.pc = "crawl_put"
          /\ blobs' = blobs \cup {<<KbBucket(peer.kb_id), peer.location>>}
          /\ peer' = [peer EXCEPT !.pc = "crawl_insert"]
          /\ UNCHANGED <<docs, files, f2d, born, nops>>
       \/ \* lines 147-167
          /\ peer.pc = "crawl_insert"
          /\ docs' = [docs EXCEPT ![FreshId] =
                        NewDoc(peer.kb_id, PDF, peer.filename, peer.location)]
          /\ born' = [born EXCEPT ![FreshId] =
                        <<KbBucket(peer.kb_id), peer.location>>]
          /\ peer' = [peer EXCEPT !.pc = "crawl_addfile", !.doc = FreshId]
          /\ UNCHANGED <<files, f2d, blobs, nops>>
       \/ \* line 168
          /\ peer.pc = "crawl_addfile"
          /\ files' = [files EXCEPT ![KbFile(peer.doc)] =
                         [source_type |-> KNOWLEDGEBASE, type |-> PDF,
                          parent_id |-> KbBucket(peer.kb_id),
                          location |-> peer.location,
                          name |-> peer.filename]]
          /\ f2d' = f2d \cup {[file_id |-> KbFile(peer.doc),
                               document_id |-> peer.doc]}
          /\ peer' = [peer EXCEPT !.pc = "done"]
          /\ UNCHANGED <<docs, blobs, born, nops>>
    /\ UNCHANGED <<tasks, kbs, idx, idxExists, queue, pc, locals, res, faults,
                   faulted, server, redis,
                   user_tenant>>

\* web_crawl requests on two worker threads
NextCrawl ==
    \/ WebCrawl
    \/ WebCrawlPeer
    \/ Return

SpecCrawl == Init /\ [][NextCrawl]_vars

\* ------------------------------------------------------ ragflow_server
\* the background thread update_progress (lines 82-96), the main thread in
\* run_simple (lines 190-206) and signal_handler (lines 99-115); time is
\* counted in seconds by Tock
MaxSignals == 2     \* SIGINT / SIGTERM deliveries in one behaviour
WaitPeriod == 6     \* stop_event.wait(6)
GracePeriod == 1    \* time.sleep(1)

ProcessGone == main \in {"exited", "killed"}

\* line 88: while not stop_event.is_set()
SweeperWhile ==
    /\ ~ProcessGone
    /\ sweeper = "while"
    /\ sweeper' = IF stop_event THEN "returned" ELSE "update_progress"
    /\ UNCHANGED <<stores, pc, locals, res, nops, faults, faulted, born, peer,
                   user_tenant,
                   redis, stop_event, wait_left, main, sleep_left, signals,
                   last_tick>>

\* DocumentService.update_progress(): the progress of the in-flight
\* Documents is recomputed from their Tasks and written back.  No Task
\* makes progress here, so the values written are the stored ones.
UpdateProgress == UNCHANGED stores

\* lines 91-93: the call returns and the thread starts stop_event.wait(6)
SweeperTick ==
    /\ ~ProcessGone
    /\ sweeper = "update_progress"
    /\ UpdateProgress
    /\ sweeper' = "wait"
    /\ wait_left' = WaitPeriod
    /\ last_tick' = "returned"
    /\ UNCHANGED <<pc, locals, res, nops, faults, faulted, born, peer, redis,
                   user_tenant,
                   stop_event, main, sleep_left, signals>>

\* lines 91, 94: the call raises an Exception
SweeperRaise ==
    /\ ~ProcessGone
    /\ sweeper = "update_progress"
    /\ sweeper' = "except"
    /\ last_tick' = "raised"
    /\ UNCHANGED <<stores, pc, locals, res, nops, faults, faulted, born, peer,
                   user_tenant,
                   redis, stop_event, wait_left, main, sleep_left, signals>>

\* an except clause that leaves the loop (what C23 rules out)
SweeperExceptLeaves ==
    /\ ~ProcessGone
    /\ sweeper = "except"
    /\ sweeper' = "returned"
    /\ UNCHANGED <<stores, pc, locals, res, nops, faults, faulted, born, peer,
                   user_tenant,
                   redis, stop_event, wait_left, main, sleep_left, signals,
                   last_tick>>

\* lines 94-96: logging.exception(...), then the loop test again
SweeperExcept ==
    /\ ~ProcessGone
    /\ sweeper = "except"
    /\ sweeper' = "while"
    /\ UNCHANGED <<stores, pc, locals, res, nops, faults, faulted, born, peer,
                   user_tenant,
                   redis, stop_event, wait_left, main, sleep_left, signals,
                   last_tick>>

\* a wait that always lasts the whole period (what C24 rules out)
SweeperWaitWholePeriod ==
    /\ ~ProcessGone
    /\ sweeper = "wait"
    /\ wait_left = 0
    /\ sweeper' = "while"
    /\ UNCHANGED <<stores, pc, locals, res, nops, faults, faulted, born, peer,
                   user_tenant,
                   redis, stop_event, wait_left, main, sleep_left, signals,
                   last_tick>>

\* line 93: stop_event.wait(6) returns after 6 seconds or when the event
\* is set
SweeperWait ==
    /\ ~ProcessGone
    /\ sweeper = "wait"
    /\ stop_event \/ wait_left = 0
    /\ sweeper' = "while"
    /\ UNCHANGED <<stores, pc, locals, res, nops, faults, faulted, born, peer,
                   user_tenant,
                   redis, stop_event, wait_left, main, sleep_left, signals,
                   last_tick>>

\* a second passes for the thread in stop_event.wait and for the thread in
\* time.sleep
Tock ==
    /\ ~ProcessGone
    /\ \/ sweeper = "wait" /\ wait_left > 0
       \/ main \in {"handler_sleep", "except_sleep"} /\ sleep_left > 0
    /\ wait_left' = IF sweeper = "wait" /\ wait_left > 0
                    THEN wait_left - 1 ELSE wait_left
    /\ sleep_left' = IF main \in {"handler_sleep", "except_sleep"}
                        /\ sleep_left > 0
                     THEN sleep_left - 1 ELSE sleep_left
    /\ UNCHANGED <<stores, pc, locals, res, nops, faults, faulted, born, peer,
                   user_tenant,
                   redis, stop_event, sweeper, main, signals, last_tick>>

\* lines 179-180: SIGINT or SIGTERM is delivered; the main thread enters
\* signal_handler, also when it is sleeping in an earlier handler
Signal ==
    /\ main \in {"run_simple", "handler_sleep", "except_sleep"}
    /\ signals < MaxSignals
    /\ signals' = signals + 1
    /\ main' = "handler_set"
    /\ UNCHANGED <<stores, pc, locals, res, nops, faults, faulted, born, peer,
                   user_tenant,
                   redis, stop_event, sweeper, wait_left, sleep_left,
                   last_tick>>

\* lines 110-113: stop_event.set(), then time.sleep(1) starts
HandlerSet ==
    /\ main = "handler_set"
    /\ stop_event' = TRUE
    /\ main' = "handler_sleep"
    /\ sleep_left' = GracePeriod
    /\ UNCHANGED <<stores, pc, locals, res, nops, faults, faulted, born, peer,
                   user_tenant,
                   redis, sweeper, wait_left, signals, last_tick>>

\* line 115: sys.exit(0) after the sleep: SystemExit unwinds the main
\* thread and the interpreter shuts down
HandlerExit ==
    /\ main = "handler_sleep"
    /\ sleep_left = 0
    /\ main' = "shutdown"
    /\ UNCHANGED <<stores, pc, locals, res, nops, faults, faulted, born, peer,
                   user_tenant,
                   redis, stop_event, sweeper, wait_left, sleep_left, signals,
                   last_tick>>

\* the interpreter's shutdown joins the worker thread of the
\* ThreadPoolExecutor (lines 183-185) before the process exits
Shutdown ==
    /\ main = "shutdown"
    /\ sweeper = "returned"
    /\ main' = "exited"
    /\ UNCHANGED <<stores, pc, locals, res, nops, faults, faulted, born, peer,
                   user_tenant,
                   redis, stop_event, sweeper, wait_left, sleep_left, signals,
                   last_tick>>

\* lines 190-199: run_simple raises an Exception
ServerFails ==
    /\ main = "run_simple"
    /\ main' = "except_set"
    /\ UNCHANGED <<stores, pc, locals, res, nops, faults, faulted, born, peer,
                   user_tenant,
                   redis, stop_event, sweeper, wait_left, sleep_left, signals,
                   last_tick>>

\* lines 198-205: traceback.print_exc(); stop_event.set(); time.sleep(1)
ExceptSet ==
    /\ main = "except_set"
    /\ stop_event' = TRUE
    /\ main' = "except_sleep"
    /\ sleep_left' = GracePeriod
    /\ UNCHANGED <<stores, pc, locals, res, nops, faults, faulted, born, peer,
                   user_tenant,
                   redis, sweeper, wait_left, signals, last_tick>>

\* line 206: os.kill(os.getpid(), signal.SIGKILL)
ExceptKill ==
    /\ main = "except_sleep"
    /\ sleep_left = 0
    /\ main' = "killed"
    /\ UNCHANGED <<stores, pc, locals, res, nops, faults, faulted, born, peer,
                   user_tenant,
                   redis, stop_event, sweeper, wait_left, sleep_left, signals,
                   last_tick>>

NextServer ==
    \/ SweeperWhile
    \/ SweeperTick
    \/ SweeperRaise
    \/ SweeperExcept
    \/ SweeperWait
    \/ Tock
    \/ Signal
    \/ HandlerSet
    \/ HandlerExit
    \/ Shutdown
    \/ ServerFails
    \/ ExceptSet
    \/ ExceptKill

\* every thread that can take a step takes one, and time passes
FairServer ==
    /\ WF_vars(SweeperWhile)
    /\ WF_vars(SweeperTick \/ SweeperRaise)
    /\ WF_vars(SweeperExcept)
    /\ WF_vars(SweeperWait)
    /\ WF_vars(Tock)
    /\ WF_vars(HandlerSet)
    /\ WF_vars(HandlerExit)
    /\ WF_vars(Shutdown)
    /\ WF_vars(ExceptSet)
    /\ WF_vars(ExceptKill)

SpecServer == Init /\ [][NextServer]_vars /\ FairServer

\* --------------------------------------------- system_app.status (ReportHealth)
ClockStep == 900    \* seconds the wall clock advances in one step
MaxClock == 4       \* clock steps in one behaviour
Window == 60 * 30   \* line 176: now - 60 * 30

\* a task executor registers its id and publishes a heartbeat at the
\* current time
Heartbeat(e) ==
    /\ now \notin heartbeats[e]
    /\ TASKEXE' = TASKEXE \cup {e}
    /\ heartbeats' = [heartbeats EXCEPT ![e] = @ \cup {now}]
    /\ UNCHANGED <<stores, pc, locals, res, nops, faults, faulted, born, peer,
                   user_tenant,
                   server, now>>

ClockTick ==
    /\ now < MaxClock * ClockStep
    /\ now' = now + ClockStep
    /\ UNCHANGED <<stores, pc, locals, res, nops, faults, faulted, born, peer,
                   user_tenant,
                   server, TASKEXE, heartbeats>>

\* lines 102-168: the health probes of the doc store, the storage, the
\* database and Redis (each in its own try), then
\* task_executor_heartbeats = {}
StatusStart ==
    /\ Enter([op |-> "status"])
    /\ cur' = [task_executor_heartbeats |-> <<>>, now |-> 0]
    /\ pc' = "st_members"
    /\ UNCHANGED <<rest, stores, i, informs, j, res, faults, born>>

\* lines 171-172: task_executors = REDIS_CONN.smembers("TASKEXE");
\* now = datetime.now().timestamp().  The set is iterated in some order.
StatusMembers ==
    /\ pc = "st_members"
    /\ \E order \in [1..Cardinality(TASKEXE) -> TASKEXE] :
         /\ \A a, b \in DOMAIN order : order[a] = order[b] => a = b
         /\ informs' = order
    /\ cur' = [cur EXCEPT !.now = now]
    /\ i' = 1
    /\ IF TASKEXE = {}
       THEN Respond("ok")
       ELSE pc' = "st_range" /\ res' = res
    /\ UNCHANGED <<rest, stores, req, j, made, errors, nops, faults, faulted,
                   born>>

\* a range read without the lower end of the window (what C25 rules out)
zrangebyscoreAll(e, min, max) == {h \in heartbeats[e] : h <= max}

\* REDIS_CONN.zrangebyscore(task_executor_id, min, max)
zrangebyscore(e, min, max) == {h \in heartbeats[e] : min <= h /\ h <= max}

\* lines 174-177: one executor's heartbeats of the last 30 minutes
StatusRange ==
    /\ pc = "st_range"
    /\ LET e == informs[i]
           hb == zrangebyscore(e, cur.now - Window, cur.now)
           old == cur.task_executor_heartbeats
       IN cur' = [cur EXCEPT !.task_executor_heartbeats =
                    [x \in DOMAIN old \cup {e} |->
                        IF x = e THEN hb ELSE old[x]]]
    /\ i' = i + 1
    /\ IF i = Len(informs)
       THEN Respond("ok")
       ELSE pc' = pc /\ res' = res
    /\ UNCHANGED <<rest, stores, req, informs, j, made, errors, nops, faults,
                   faulted, born>>

\* lines 178-181: a Redis call or json.loads raises; the exception is
\* logged and the entries gathered so far are the response
StatusExcept ==
    /\ pc \in {"st_members", "st_range"}
    /\ Raise
    /\ Respond("ok")
    /\ UNCHANGED <<rest, stores, locals, nops, born>>

Status ==
    \/ StatusStart
    \/ StatusMembers
    \/ StatusRange
    \/ StatusExcept

InitParsed ==
    /\ InitStores([d \in 1..InitDocs |-> "crawled_parsed"])
    /\ InitLocals

NextHealth ==
    \/ Status
    \/ \E e \in ExecIds : Heartbeat(e)
    \/ ClockTick
    \/ Return

SpecHealth == InitParsed /\ [][NextHealth]_vars

\* ------------------------------------------------------- kb_app.update
MaxPagerank == 2    \* pagerank values 0..MaxPagerank

\* req["name"] of an update; req["pagerank"] as the set of its values, {}
\* when the request has no such key
ReqKbNames == {Name("kb", 1), Name("kb", 2), Name("KB", 1), Name("kb", 3)}
ReqPageranks == {{}} \cup {{v} : v \in 0..MaxPagerank}

\* req.get("pagerank", 0)
req_get_pagerank(r) ==
    IF r.pagerank = {} THEN 0 ELSE CHOOSE v \in r.pagerank : TRUE

\* str.lower() of a KB name
lower_name(nm) == [nm EXCEPT !.b = lower(@)]

\* KnowledgebaseService.query(name=nm, tenant_id=..., status=VALID)
KbsNamed(nm) == {k \in KbIds : kbs[k].live /\ kbs[k].name = nm}

\* lines 115-134: accessible4deletion, the owner's query, get_by_id
KbUpdateStart(k, nm, pr) ==
    /\ Enter([op |-> "kb_update", kb_id |-> k, name |-> nm, pagerank |-> pr])
    /\ IF ~kbs[k].live
       THEN /\ Respond("No authorization.")
            /\ cur' = cur
       ELSE /\ cur' = [kb |-> kbs[k]]
            /\ pc' = "kbu_check"
            /\ res' = res
    /\ UNCHANGED <<rest, stores, i, informs, j, faults, born>>

\* lines 146-157: the duplicate-name test
KbUpdateCheck ==
    /\ pc = "kbu_check"
    /\ IF /\ lower_name(req.name) # lower_name(cur.kb.name)
          /\ Cardinality(KbsNamed(req.name)) > 1
       THEN Respond("Duplicated knowledgebase name.")
       ELSE pc' = "kbu_update" /\ res' = res
    /\ UNCHANGED <<rest, stores, locals, nops, faults, faulted, born>>

\* line 163: kb.pagerank != req.get("pagerank", 0)
PagerankDiffers(kb, r) == kb.pagerank # req_get_pagerank(r)

\* lines 159-163: KnowledgebaseService.update_by_id(kb.id, req) writes the
\* fields the request has
KbUpdateUpdate ==
    /\ pc = "kbu_update"
    /\ IF ~kbs[req.kb_id].live
       THEN /\ Respond("Data error")
            /\ kbs' = kbs
       ELSE /\ kbs' = [kbs EXCEPT
                         ![req.kb_id].name = req.name,
                         ![req.kb_id].pagerank =
                             IF req.pagerank = {} THEN @
                             ELSE req_get_pagerank(req)]
            /\ pc' = IF PagerankDiffers(cur.kb, req)
                     THEN "kbu_patch" ELSE "kbu_get"
            /\ res' = res
    /\ UNCHANGED <<rest, docs, tasks, files, f2d, blobs, idx, idxExists, queue,
                   locals, nops, faults, faulted, born>>

\* docStoreConn.update({"kb_id": k}, {PAGERANK_FLD: v}, index, k)
IndexSetPagerank(k, v) ==
    [d \in DocIds |->
        IF idx[d].n > 0 /\ idx[d].kb = k
        THEN [idx[d] EXCEPT !.pagerank_fea = {v}] ELSE idx[d]]

\* docStoreConn.update({"exists": PAGERANK_FLD}, {"remove": PAGERANK_FLD},
\*                     index, k)
IndexRemovePagerank(k) ==
    [d \in DocIds |->
        IF idx[d].n > 0 /\ idx[d].kb = k /\ idx[d].pagerank_fea # {}
        THEN [idx[d] EXCEPT !.pagerank_fea = {}] ELSE idx[d]]

\* lines 164-178: the patch of the index
KbUpdatePatch ==
    /\ pc = "kbu_patch"
    /\ idx' = IF req_get_pagerank(req) > 0
              THEN IndexSetPagerank(req.kb_id, req_get_pagerank(req))
              ELSE IndexRemovePagerank(req.kb_id)
    /\ pc' = "kbu_get"
    /\ UNCHANGED <<rest, docs, tasks, kbs, files, f2d, blobs, idxExists, queue,
                   locals, res, nops, faults, faulted, born>>

\* lines 180-188: the row is read again and returned
KbUpdateGet ==
    /\ pc = "kbu_get"
    /\ Respond(IF kbs[req.kb_id].live THEN "ok"
               ELSE "Database error (Knowledgebase rename)!")
    /\ UNCHANGED <<rest, stores, locals, nops, faults, faulted, born>>

\* lines 189-190
KbUpdateExcept ==
    /\ pc \in {"kbu_check", "kbu_update", "kbu_patch", "kbu_get"}
    /\ Raise
    /\ Respond("exception")
    /\ UNCHANGED <<rest, stores, locals, nops, born>>

KbUpdate ==
    \/ \E k \in KbIds, nm \in ReqKbNames, pr \in ReqPageranks :
          KbUpdateStart(k, nm, pr)
    \/ KbUpdateCheck
    \/ KbUpdateUpdate
    \/ KbUpdatePatch
    \/ KbUpdateGet
    \/ KbUpdateExcept

NextKb ==
    \/ KbUpdate
    \/ Return

SpecKb == Init /\ [][NextKb]_vars

\* -------------------------------------------------- document_app.set_meta
\* req["meta"]: JSON texts
MetaTexts ==
    {"{", "[1]", "7", "{}", "{\"a\": 1}", "{\"a\": {\"b\": 1}}",
     "{\"a\": [1]}"}

\* json.loads(s): whether it returns, and the type of what it returns; a
\* dict is kept as its text
json_loads(s) ==
    CASE s = "{" -> [ok |-> FALSE, type |-> "none"]
      [] s = "[1]" -> [ok |-> TRUE, type |-> "list"]
      [] s = "7" -> [ok |-> TRUE, type |-> "int"]
      [] OTHER -> [ok |-> TRUE, type |-> "dict"]

\* line 856: isinstance(meta, dict)
IsDict(s) == json_loads(s).type = "dict"

\* lines 841-861: authorization, json.loads, the isinstance test
SetMetaStart(d, s) ==
    /\ Enter([op |-> "set_meta", doc_id |-> d, meta |-> s])
    /\ IF ~accessible(d)
       THEN Respond("No authorization.")
       ELSE IF ~json_loads(s).ok
       THEN Respond("Json syntax error")
       ELSE IF ~IsDict(s)
       THEN Respond("Meta data should be in Json map format")
       ELSE pc' = "sm_update" /\ res' = res
    /\ UNCHANGED <<rest, stores, i, informs, j, cur, faults, born>>

\* lines 863-871: get_by_id, then
\* DocumentService.update_by_id(doc_id, {"meta_fields": meta})
SetMetaUpdate ==
    /\ pc = "sm_update"
    /\ IF docs[req.doc_id] = NoDoc
       THEN /\ Respond("Document not found!")
            /\ docs' = docs
       ELSE /\ docs' = [docs EXCEPT ![req.doc_id].meta_fields = req.meta]
            /\ Respond("ok")
    /\ UNCHANGED <<rest, tasks, kbs, files, f2d, blobs, idx, idxExists, queue,
                   locals, nops, faults, faulted, born>>

\* lines 872-873
SetMetaExcept ==
    /\ pc = "sm_update"
    /\ Raise
    /\ Respond("exception")
    /\ UNCHANGED <<rest, stores, locals, nops, born>>

SetMeta ==
    \/ \E d \in NamedDocs, s \in MetaTexts : SetMetaStart(d, s)
    \/ SetMetaUpdate
    \/ SetMetaExcept

NextMeta ==
    \/ SetMeta
    \/ Return

SpecMeta == Init /\ [][NextMeta]_vars

\* ------------------------------- services.duplicate_name, on file names
\* a file name is the sequence of its characters
Alphabet == {"a", ".", "(", ")", "1", "9"}
MaxLen == 4         \* longest name a call is given
MaxChain == 3       \* names of the counter sequence that may exist already
FileNames == UNION {[1..n -> Alphabet] : n \in 1..MaxLen}

DigitChars == <<"0", "1", "2", "3", "4", "5", "6", "7", "8", "9">>
IsDigit(ch) == \E v \in 1..10 : DigitChars[v] = ch

\* int(r.group(1))
RECURSIVE int(_)
int(s) ==
    IF s = <<>> THEN 0
    ELSE int(SubSeq(s, 1, Len(s) - 1)) * 10
         + (CHOOSE v \in 0..9 : DigitChars[v + 1] = s[Len(s)])

\* the decimal digits f"{c}" writes
RECURSIVE str(_)
str(c) ==
    IF c < 10 THEN <<DigitChars[c + 1]>>
    ELSE str(c \div 10) \o <<DigitChars[(c % 10) + 1]>>

\* pathlib.Path(fnm).suffix: from the last "." on, unless that "." is the
\* first or the last character
Path_suffix(fnm) ==
    LET dots == {p \in 1..Len(fnm) : fnm[p] = "."} IN
    IF dots = {} THEN <<>>
    ELSE LET p == CHOOSE q \in dots : \A o \in dots : o <= q IN
         IF 1 < p /\ p < Len(fnm) THEN SubSeq(fnm, p, Len(fnm)) ELSE <<>>

\* re.compile(pattern) accepts the pattern: its parentheses are balanced
RECURSIVE Depth(_)
Depth(p) ==
    IF p = <<>> THEN 0
    ELSE Depth(SubSeq(p, 1, Len(p) - 1))
         + (IF p[Len(p)] = "(" THEN 1 ELSE IF p[Len(p)] = ")" THEN -1 ELSE 0)

re_compiles(p) ==
    /\ Depth(p) = 0
    /\ \A n \in 1..Len(p) : Depth(SubSeq(p, 1, n)) >= 0

\* what the pattern ext + "$" matches: "(" and ")" group and match no
\* character, "." matches any character, the others match themselves
Atoms(p) == SelectSeq(p, LAMBDA ch : ch \notin {"(", ")"})

\* re.sub(r"%s$" % ext, "", fnm), for a pattern that compiles
sub_ext(ext, fnm) ==
    LET q == Atoms(ext)
        at == Len(fnm) - Len(q)
    IN IF /\ ext # <<>>
          /\ at >= 0
          /\ \A n \in 1..Len(q) : q[n] = "." \/ q[n] = fnm[at + n]
       THEN SubSeq(fnm, 1, at) ELSE fnm

\* re.search(r"\(([0-9]+)\)$", nm): the position of the "(" of a counter
\* at the end of nm, 0 if there is none
search_counter(nm) ==
    IF Len(nm) < 3 \/ nm[Len(nm)] # ")" THEN 0
    ELSE LET run == {p \in 1..(Len(nm) - 1) :
                        \A o \in p..(Len(nm) - 1) : IsDigit(nm[o])}
         IN IF run = {} THEN 0
            ELSE LET p == CHOOSE q \in run : \A o \in run : q <= o IN
                 IF p > 1 /\ nm[p - 1] = "(" THEN p - 1 ELSE 0

\* lines 50-66: the name the recursive call is made with, or the re.error
\* of line 52
next_name(fnm) ==
    LET ext == Path_suffix(fnm) IN
    IF ~re_compiles(ext) THEN [raised |-> TRUE, name |-> fnm]
    ELSE LET nm == sub_ext(ext, fnm)
             r == search_counter(nm)
             c == IF r = 0 THEN 0
                  ELSE int(SubSeq(nm, r + 1, Len(nm) - 1))
             base == IF r = 0 THEN nm ELSE SubSeq(nm, 1, r - 1)
         IN [raised |-> FALSE,
             name |-> base \o <<"(">> \o str(c + 1) \o <<")">> \o ext]

\* lines 43-69: duplicate_name(query_func, name=fnm), where query_func
\* finds a record exactly for the names of objs
RECURSIVE duplicate_name_chars(_, _)
duplicate_name_chars(objs, fnm) ==
    IF fnm \notin objs THEN [raised |-> FALSE, name |-> fnm]
    ELSE IF next_name(fnm).raised THEN next_name(fnm)
    ELSE duplicate_name_chars(objs, next_name(fnm).name)

\* the first names of the counter sequence of fnm
RECURSIVE Chain(_, _)
Chain(fnm, n) ==
    IF n = 0 \/ next_name(fnm).raised THEN {fnm}
    ELSE {fnm} \cup Chain(next_name(fnm).name, n - 1)

\* a caller asks for a free name: the call returns it or raises
DuplicateNameCall ==
    /\ pc = "idle"
    /\ \E fnm \in FileNames :
         \E objs \in SUBSET Chain(fnm, MaxChain - 1) :
            /\ Enter([op |-> "duplicate_name", name |-> fnm, objs |-> objs])
            /\ cur' = duplicate_name_chars(objs, fnm)
            /\ Respond(IF duplicate_name_chars(objs, fnm).raised
                       THEN "exception" ELSE "ok")
    /\ UNCHANGED <<rest, stores, i, informs, j, faults, born>>

NextDup ==
    \/ DuplicateNameCall
    \/ Return

SpecDup == InitParsed /\ [][NextDup]_vars

\* ------------- create and rename on a second worker thread (threaded=True)
\* One create or rename request served by another thread of run_simple
\* while the first thread serves its own: each branch is one stretch of the
\* handler between two Metadata Store writes.
NamePeer ==
    /\ \/ \* create, lines 188-203: the KB is read, the name is looked up
          /\ peer = NoPeer
          /\ nops < MaxOps
          /\ FreshIds # {}
          /\ nops' = nops + 1
          /\ \E k \in KbIds, nm \in ReqNames :
               peer' = [pc |-> IF kbs[k].live /\ ~NameTaken(k, nm)
                               THEN "cr_insert" ELSE "done",
                        op |-> "create", kb_id |-> k, doc_id |-> 0,
                        name |-> nm]
          /\ UNCHANGED <<docs, files, born>>
       \/ \* create, lines 205-218: DocumentService.insert
          /\ peer.pc = "cr_insert"
          /\ docs' = [docs EXCEPT ![FreshId] = CreateDoc(peer.kb_id, peer.name)]
          /\ born' = [born EXCEPT ![FreshId] = <<KbBucket(peer.kb_id), NoLoc>>]
          /\ peer' = [peer EXCEPT !.pc = "done", !.doc_id = FreshId]
          /\ UNCHANGED <<files, nops>>
       \/ \* rename, lines 541-565: authorization, suffix, duplicate lookup
          /\ peer = NoPeer
          /\ nops < MaxOps
          /\ nops' = nops + 1
          /\ \E d \in NamedDocs, nm \in ReqNames :
               peer' = [pc |-> IF /\ accessible(d)
                                  /\ ~SuffixDiffers(nm, docs[d].name)
                                  /\ ~RenameDuplicate(docs[d].kb, nm)
                               THEN "rn_update" ELSE "done",
                        op |-> "rename",
                        kb_id |-> IF docs[d] # NoDoc THEN docs[d].kb ELSE 0,
                        doc_id |-> d, name |-> nm]
          /\ UNCHANGED <<docs, files, born>>
       \/ \* rename, lines 567-568: DocumentService.update_by_id
          /\ peer.pc = "rn_update"
          /\ docs' = IF docs[peer.doc_id] = NoDoc THEN docs
                     ELSE [docs EXCEPT ![peer.doc_id].name = peer.name]
          /\ peer' = [peer EXCEPT !.pc = IF docs[peer.doc_id] = NoDoc
                                         THEN "done" ELSE "rn_file"]
          /\ UNCHANGED <<files, born, nops>>
       \/ \* rename, lines 570-575: the File of the first link is renamed
          /\ peer.pc = "rn_file"
          /\ files' = IF LinksOfDoc(peer.doc_id) # {}
                         /\ files[FirstLink(peer.doc_id).file_id] # NoFile
                      THEN [files EXCEPT
                              ![FirstLink(peer.doc_id).file_id].name = peer.name]
                      ELSE files
          /\ peer' = [peer EXCEPT !.pc = "done"]
          /\ UNCHANGED <<docs, born, nops>>
    /\ UNCHANGED <<tasks, kbs, f2d, blobs, idx, idxExists, queue, pc, locals,
                   res, faults, faulted, server, redis,
                   user_tenant>>

\* create and rename requests on two worker threads, over Documents whose
\* names differ
NextRace ==
    \/ Rename
    \/ Create
    \/ NamePeer
    \/ Return

SpecRace == InitParsed /\ [][NextRace]_vars

\* ------------------------------------------------- kb_app.create (create)
\* req["name"] of a create: a name, a name with leading blanks, the empty
\* string
EmptyName == NameExt("", 0, "")
ReqCreateNames == {Name("kb", 1), Name(" kb", 1), Name("kb", 3), EmptyName}

\* str.strip() of a KB name
strip(nm) == IF nm.b = " kb" THEN [nm EXCEPT !.b = "kb"] ELSE nm

\* duplicate_name(KnowledgebaseService.query, name=nm, tenant_id=...,
\* status=VALID): the counter is incremented until no valid KB has the name
RECURSIVE kb_duplicate_name(_)
kb_duplicate_name(nm) ==
    IF KbsNamed(nm) # {} THEN kb_duplicate_name([nm EXCEPT !.c = @ + 1])
    ELSE nm

\* get_uuid(): the id of a row that is not in the table
FreshKbs == {k \in KbIds : ~kbs[k].live}
FreshKb == CHOOSE k \in FreshKbs : \A m \in FreshKbs : k <= m

\* lines 57-67: the name must be a non-empty string below the length limit
KbCreateStart(nm) ==
    /\ Enter([op |-> "kb_create", name |-> nm])
    /\ FreshKbs # {}
    /\ IF nm = EmptyName
       THEN Respond("Dataset name can't be empty.")
       ELSE pc' = "kbc_name" /\ res' = res
    /\ UNCHANGED <<rest, stores, i, informs, j, cur, faults, born>>

\* lines 69-75: dataset_name = duplicate_name(..., name=dataset_name.strip())
KbCreateName ==
    /\ pc = "kbc_name"
    /\ cur' = [dataset_name |-> kb_duplicate_name(strip(req.name))]
    /\ pc' = "kbc_save"
    /\ UNCHANGED <<rest, stores, req, i, informs, j, made, errors, res, nops,
                   faults, faulted, born>>

\* lines 76-86: req gets id, tenant_id, created_by and embd_id, and
\* KnowledgebaseService.save(**req) inserts the row: its name is req["name"]
KbCreateSave ==
    /\ pc = "kbc_save"
    /\ kbs' = [kbs EXCEPT ![FreshKb] =
                 [live |-> TRUE, name |-> req.name, pagerank |-> 0,
                  chunk_num |-> 0, token_num |-> 0]]
    /\ made' = Append(made, FreshKb)
    /\ Respond("ok")
    /\ UNCHANGED <<rest, docs, tasks, files, f2d, blobs, idx, idxExists, queue,
                   req, i, informs, j, cur, errors, nops, faults, faulted,
                   born>>

\* lines 87-88, and an exception of duplicate_name outside the try: the
\* request ends with a server error
KbCreateExcept ==
    /\ pc \in {"kbc_name", "kbc_save"}
    /\ Raise
    /\ Respond("exception")
    /\ UNCHANGED <<rest, stores, locals, nops, born>>

KbCreate ==
    \/ \E nm \in ReqCreateNames : KbCreateStart(nm)
    \/ KbCreateName
    \/ KbCreateSave
    \/ KbCreateExcept

\* KnowledgeBases are deleted and created
NextKbCreate ==
    \/ KbCreate
    \/ KbRm
    \/ Return

SpecKbCreate == Init /\ [][NextKbCreate]_vars

\* ------------------------------------------- tenant_app (team membership)
\* req["email"]: the address of a user, or of nobody
Emails == Users \cup {"nobody"}

\* the membership states of a user in a team of another user: no row, an
\* invitation, a membership
Memberships ==
    {m \in [Users \X Users -> {<<>>, <<OWNER>>, <<INVITE>>, <<NORMAL>>}] :
        \A p \in Users \X Users : (m[p] = <<OWNER>>) <=> (p[1] = p[2])}

\* UserTenantService.query(user_id=u, tenant_id=t)
UserTenants(u, t) == user_tenant[<<u, t>>]

\* create, lines 57-71: only the owner invites; the invited user is looked
\* up by e-mail
TenantCreateStart(me, t, email) ==
    /\ Enter([op |-> "tenant_create", user |-> me, tenant_id |-> t,
              email |-> email])
    /\ IF me # t
       THEN Respond("No authorization.")
       ELSE IF email \notin Users
       THEN Respond("User not found.")
       ELSE pc' = "tc_query" /\ res' = res
    /\ UNCHANGED <<rest, stores, i, informs, j, cur, faults, born>>

\* lines 73-91: a user who has a row in the team is not invited again
TenantCreateQuery ==
    /\ pc = "tc_query"
    /\ IF UserTenants(req.email, req.tenant_id) # <<>>
       THEN Respond(
              CASE UserTenants(req.email, req.tenant_id)[1] = NORMAL ->
                     "is already in the team."
                [] UserTenants(req.email, req.tenant_id)[1] = OWNER ->
                     "is the owner of the team."
                [] OTHER -> "is in the team, but the role is invalid.")
       ELSE pc' = "tc_save" /\ res' = res
    /\ UNCHANGED <<rest, stores, locals, nops, faults, faulted, born>>

\* lines 94-107: UserTenantService.save(..., role=INVITE)
TenantCreateSave ==
    /\ pc = "tc_save"
    /\ user_tenant' =
          [user_tenant EXCEPT ![<<req.email, req.tenant_id>>] =
              Append(@, INVITE)]
    /\ Respond("ok")
    /\ UNCHANGED <<peer, server, redis, stores, locals, nops, faults, faulted,
                   born>>

\* create has no try: an exception of a store call ends the request with
\* the server's error response
TenantCreateExcept ==
    /\ pc \in {"tc_query", "tc_save"}
    /\ Raise
    /\ Respond("exception")
    /\ UNCHANGED <<rest, stores, locals, nops, born>>

\* rm, lines 112-119: the owner of the team or the user themselves
TenantRmStart(me, t, u) ==
    /\ Enter([op |-> "tenant_rm", user |-> me, tenant_id |-> t,
              user_id |-> u])
    /\ IF me # t /\ me # u
       THEN Respond("No authorization.")
       ELSE pc' = "trm_delete" /\ res' = res
    /\ UNCHANGED <<rest, stores, i, informs, j, cur, faults, born>>

\* lines 121-126: UserTenantService.filter_delete([tenant_id, user_id])
TenantRmDelete ==
    /\ pc = "trm_delete"
    /\ user_tenant' =
          [user_tenant EXCEPT ![<<req.user_id, req.tenant_id>>] = <<>>]
    /\ Respond("ok")
    /\ UNCHANGED <<peer, server, redis, stores, locals, nops, faults, faulted,
                   born>>

\* lines 127-128
TenantRmExcept ==
    /\ pc = "trm_delete"
    /\ Raise
    /\ Respond("exception")
    /\ UNCHANGED <<rest, stores, locals, nops, born>>

\* agree, lines 145-148
AgreeStart(me, t) ==
    /\ Enter([op |-> "agree", user |-> me, tenant_id |-> t])
    /\ pc' = "ag_update"
    /\ UNCHANGED <<rest, stores, i, informs, j, cur, res, faults, born>>

\* lines 150-153: UserTenantService.filter_update([tenant_id == t,
\* user_id == u], {"role": NORMAL}): every row of the pair gets the role
filter_update_role(u, t) ==
    [user_tenant EXCEPT ![<<u, t>>] = [n \in 1..Len(@) |-> NORMAL]]

\* lines 150-154
AgreeUpdate ==
    /\ pc = "ag_update"
    /\ user_tenant' = filter_update_role(req.user, req.tenant_id)
    /\ Respond("ok")
    /\ UNCHANGED <<peer, server, redis, stores, locals, nops, faults, faulted,
                   born>>

\* lines 155-156
AgreeExcept ==
    /\ pc = "ag_update"
    /\ Raise
    /\ Respond("exception")
    /\ UNCHANGED <<rest, stores, locals, nops, born>>

Tenant ==
    \/ \E me \in Users, t \in Users, email \in Emails :
          TenantCreateStart(me, t, email)
    \/ TenantCreateQuery
    \/ TenantCreateSave
    \/ TenantCreateExcept
    \/ \E me \in Users, t \in Users, u \in Users : TenantRmStart(me, t, u)
    \/ TenantRmDelete
    \/ TenantRmExcept
    \/ \E me \in Users, t \in Users : AgreeStart(me, t)
    \/ AgreeUpdate
    \/ AgreeExcept

\* a team in any state its members can have brought about
InitTenant ==
    /\ InitStores([d \in 1..InitDocs |-> "crawled_parsed"])
    /\ InitExt
    /\ InitRequest
    /\ user_tenant \in Memberships

NextTenant ==
    \/ Tenant
    \/ Return

SpecTenant == InitTenant /\ [][NextTenant]_vars

\* ====================================================================
\* Properties
\* ====================================================================

\* -------------------------------------------------------------- C1
\* the request in flight is a Run with run == RUNNING and delete, about to
\* enqueue the Task of its current id
RunClearing == req.op = "run" /\ req.delete /\ req.run = RUNNING

\* C1: in a Run(docIds, running, clearHistory=true), whenever the Task of an
\* id is enqueued, the Task rows and the Index Store entries of that id
\* have already been deleted: the state the enqueue is taken from holds no
\* Task row and no index entry with that doc_id.
C1_DeleteBeforeEnqueue ==
    [][(RunClearing /\ pc = "run_enqueue" /\ queue' # queue)
         => (idx[req.doc_ids[i]].n = 0 /\ tasks[req.doc_ids[i]] = 0)]_vars

\* a first request that cleared a parsed Document (it had index entries and
\* a Task row initially) and is about to enqueue
C1_Witness ==
    /\ RunClearing /\ pc = "run_enqueue" /\ nops = 1
    /\ docs[req.doc_ids[i]].name.b = "a"
    /\ idx[req.doc_ids[i]].n = 0

\* -------------------------------------------------------------- C2
RmTryPcs == {"rm_tasks", "rm_doc", "rm_file", "rm_link", "rm_blob"}

\* C2: within Delete of one Document the Task rows are deleted before the
\* Metadata row, the Metadata row before the File-Document link and the
\* knowledge-base-private File row, and the blob is removed last: the step
\* that removes the blob starts from a state where Tasks, Metadata row,
\* link and private File row of the Document are gone.
C2_DeleteOrder ==
    [][(req.op = "rm" /\ pc \in RmTryPcs) =>
         LET d == req.doc_ids[i] IN
         /\ (docs[d] # NoDoc /\ docs'[d] = NoDoc) => tasks[d] = 0
         /\ (f2d' # f2d \/ files' # files) => (docs[d] = NoDoc /\ tasks[d] = 0)
         /\ (pc = "rm_blob" /\ faults' = faults) =>
               /\ docs[d] = NoDoc
               /\ tasks[d] = 0
               /\ LinksOfDoc(d) = {}
               /\ files[KbFile(d)] = NoFile]_vars

\* Delete is about to remove a blob that exists, of a Document that had
\* Task rows, a link and a private File
C2_Witness ==
    /\ req.op = "rm" /\ pc = "rm_blob" /\ nops = 1
    /\ <<cur.b, cur.n>> \in blobs
    /\ cur.b = KbBucket(1)
    /\ docs[req.doc_ids[i]] = NoDoc

\* -------------------------------------------------------------- C3
\* C3 (as claimed): a Delete that passed authorization attempts every id of
\* its batch before it returns.
C3_EveryIdAttempted ==
    (pc = "done" /\ req.op = "rm" /\ res # "No authorization.")
        => i >= Len(req.doc_ids)

\* -------------------------------------------------------------- C4
Succeeded(op) == pc = "done" /\ req.op = op /\ res = "ok"

HasBlobAtKb(d) == <<KbBucket(docs[d].kb), docs[d].location>> \in blobs

C5_ChunksHaveEntries ==
    pc \in {"idle", "done"} =>
        \A d \in DocIds :
            (docs[d] # NoDoc /\ docs[d].chunk_num > 0) => idx[d].n > 0

\* -------------------------------------------------------------- C6
\* C6 (as claimed): after a request that ended in success no Task row has
\* the doc_id of a Document whose Metadata row is gone.
C6_NoOrphanTask ==
    (pc = "done" /\ res = "ok") =>
        \A d \in DocIds : docs[d] = NoDoc => tasks[d] = 0

\* -------------------------------------------------------------- C7
\* C7 (as claimed): after a successful DeleteKnowledgeBase no Metadata row,
\* link, private File row or blob of a Document that was in the KB remains.
C7_KbCascade ==
    Succeeded("kb_rm") =>
        \A n \in 1..Len(informs) :
            /\ docs[informs[n]] = NoDoc
            /\ LinksOfDoc(informs[n]) = {}
            /\ files[KbFile(informs[n])] = NoFile
            /\ cur.locations[n] # NoLoc =>
                  <<KbBucket(req.kb_id), cur.locations[n]>> \notin blobs

\* -------------------------------------------------------------- C8
KbDocLoopPcs == {"kb_doc", "kb_file", "kb_link"}

\* a DeleteKnowledgeBase ended by an exception in the cascade of Document i
KbRmFailedInLoop ==
    /\ pc = "done" /\ req.op = "kb_rm" /\ res = "exception"
    /\ errors[1] \in KbDocLoopPcs

\* C8 (as claimed): when the cascade of one Document of a
\* DeleteKnowledgeBase fails, the other Documents are still removed and the
\* KB's Metadata row and index are still deleted.
C8_Original ==
    KbRmFailedInLoop =>
        /\ \A n \in 1..Len(informs) : n # i => docs[informs[n]] = NoDoc
        /\ ~kbs[req.kb_id].live
        /\ ~idxExists

\* -------------------------------------------------------------- C9
Gone(d) ==
    /\ docs[d] = NoDoc
    /\ tasks[d] = 0
    /\ LinksOfDoc(d) = {}
    /\ files[KbFile(d)] = NoFile
    /\ born[d] \notin blobs

\* C9 (as claimed): a Delete(D.id) in which no store call fails leaves
\* nothing of D, also when an earlier Delete of D failed partway: Tasks,
\* Metadata row, link, private File row and blob are all absent.
C9_RetryConverges ==
    (pc = "done" /\ req.op = "rm" /\ Len(req.doc_ids) = 1 /\ ~faulted) =>
        Gone(req.doc_ids[1])

\* -------------------------------------------------------------- C10
\* C10: ChangeStatus writes the Metadata status before it patches the
\* index; a patch that raises ends the request with an error and leaves
\* the new status in the Metadata row; a patch that succeeds leaves the
\* entries' available_int equal to the Metadata status.
C10_ChangeStatus ==
    [][(req.op = "change_status" /\ pc = "cs_patch") =>
         LET d == req.doc_id IN
         /\ docs[d].status = req.status
         /\ faults' # faults =>
               /\ pc' = "done" /\ res' = "exception"
               /\ docs'[d].status = req.status
               /\ idx' = idx
         /\ faults' = faults =>
               /\ pc' = "done" /\ res' = "ok"
               /\ docs'[d].status = req.status
               /\ idx'[d].n > 0 =>
                     idx'[d].available_int = StatusInt(docs'[d].status)]_vars

\* the patch raised: the Metadata row says disabled, the index still enabled
C10_Witness ==
    /\ pc = "done" /\ req.op = "change_status" /\ res = "exception"
    /\ errors = <<"cs_patch">>
    /\ docs[req.doc_id].status = "0"
    /\ idx[req.doc_id].n > 0
    /\ idx[req.doc_id].available_int = 1

\* -------------------------------------------------------------- C11
\* C11: a ChangeParser naming the Document's current parser, with no config
\* or the Document's current config, returns success in its first step and
\* leaves every store as it was (run, progress, progress_msg, the KB
\* counters and the Index Store included).
C11_SameParserNoOp ==
    [][(pc = "idle" /\ req'.op = "change_parser"
        /\ docs[req'.doc_id] # NoDoc
        /\ req'.parser_id = docs[req'.doc_id].parser_id
        /\ req'.parser_config
              \in {"absent", docs[req'.doc_id].parser_config})
         => (pc' = "done" /\ res' = "ok" /\ UNCHANGED stores)]_vars

\* the no-op answered for a parsed Document: its counts and run are intact
C11_Witness ==
    /\ Succeeded("change_parser") /\ cur = NoCur
    /\ docs[req.doc_id].parser_id = req.parser_id
    /\ req.parser_config = docs[req.doc_id].parser_config
    /\ docs[req.doc_id].run = DONE
    /\ docs[req.doc_id].token_num > 0
    /\ idx[req.doc_id].n > 0

\* -------------------------------------------------------------- C12
\* the request would move Document d to a parser its type or name forbids
Forbidden(d, parser) ==
    \/ docs[d].type = VISUAL /\ parser # "picture"
    \/ docs[d].name.ext \in {"ppt", "pptx", "pages"}
       /\ parser # "presentation"

\* C12: a ChangeParser that would switch a visual Document to a parser
\* other than picture, or a Document named *.ppt, *.pptx or *.pages to a
\* parser other than presentation, is answered with an error in its first
\* step and leaves every store as it was.
C12_RejectedSwitch ==
    [][(pc = "idle" /\ req'.op = "change_parser"
        /\ docs[req'.doc_id] # NoDoc
        /\ req'.parser_id # docs[req'.doc_id].parser_id
        /\ Forbidden(req'.doc_id, req'.parser_id))
         => (pc' = "done" /\ res' = "Not supported yet!"
             /\ UNCHANGED stores)]_vars

\* a presentation-named Document was refused another parser
C12_Witness ==
    /\ pc = "done" /\ req.op = "change_parser"
    /\ res = "Not supported yet!"
    /\ docs[req.doc_id].name.ext = "ppt"
    /\ req.parser_id = "naive"
    /\ docs[req.doc_id].parser_id = "presentation"

\* -------------------------------------------------------------- C13
RECURSIVE SumTokens(_)
SumTokens(S) ==
    IF S = {} THEN 0
    ELSE LET d == CHOOSE e \in S : TRUE
         IN docs[d].token_num + SumTokens(S \ {d})

RECURSIVE SumChunks(_)
SumChunks(S) ==
    IF S = {} THEN 0
    ELSE LET d == CHOOSE e \in S : TRUE
         IN docs[d].chunk_num + SumChunks(S \ {d})

DocsIn(k) == {d \in DocIds : docs[d] # NoDoc /\ docs[d].kb = k}

\* an accepted change: the request passed the checks of lines 638-649, and
\* cur holds the Document as it was read before the update
CpAccepted == req.op = "change_parser" /\ cur # NoCur

RunTransitions ==
    {<<UNSTART, RUNNING>>}
      \cup {<<RUNNING, t>> : t \in {DONE, FAIL, CANCEL}}
      \cup {<<t, RUNNING>> : t \in {DONE, FAIL, CANCEL}}

\* C14 (as claimed): every step that changes a Document's run takes it
\* along a transition of the state machine.
C14_RunStateMachine ==
    [][\A d \in DocIds :
         (docs[d] # NoDoc /\ docs'[d] # NoDoc
          /\ docs'[d].run # docs[d].run)
           => <<docs[d].run, docs'[d].run>> \in RunTransitions]_vars

\* -------------------------------------------------------------- C15
\* C15: the update of a Run sets run to desiredRun and progress to 0, and
\* zeroes progress_msg, chunk_num and token_num exactly when desiredRun is
\* running and clearHistory is set (otherwise the three keep their
\* values); no other step of a Run changes a Metadata row; after a
\* successful Run every Document of the call has run = desiredRun and
\* progress = 0.
C15_RunFields ==
    /\ [][(req.op = "run" /\ pc # "done") =>
            IF pc = "run_update" /\ faults' = faults
               /\ docs[req.doc_ids[i]] # NoDoc
            THEN LET d == req.doc_ids[i] IN
                 /\ docs'[d].run = req.run
                 /\ docs'[d].progress = 0
                 /\ IF req.run = RUNNING /\ req.delete
                    THEN /\ docs'[d].progress_msg = ""
                         /\ docs'[d].chunk_num = 0
                         /\ docs'[d].token_num = 0
                    ELSE /\ docs'[d].progress_msg = docs[d].progress_msg
                         /\ docs'[d].chunk_num = docs[d].chunk_num
                         /\ docs'[d].token_num = docs[d].token_num
                 /\ \A e \in DocIds \ {d} : docs'[e] = docs[e]
            ELSE docs' = docs]_vars
    /\ [](Succeeded("run") =>
            \A n \in 1..Len(req.doc_ids) :
                /\ docs[req.doc_ids[n]].run = req.run
                /\ docs[req.doc_ids[n]].progress = 0)

\* a cancel with clearHistory succeeded on a parsed Document: run and
\* progress are set, the counts are kept
C15_Witness ==
    /\ Succeeded("run") /\ req.run = CANCEL /\ req.delete
    /\ docs[req.doc_ids[1]].run = CANCEL
    /\ docs[req.doc_ids[1]].progress = 0
    /\ docs[req.doc_ids[1]].progress_msg = "done"
    /\ docs[req.doc_ids[1]].token_num > 0

\* -------------------------------------------------------------- C16
\* C16: a step of a Run changes the Task Queue only by appending one
\* payload for the id at hand, and only when desiredRun is running; the
\* payload holds the Document as it is after the field reset, the tenant
\* of the Document and its storage address; after the first request, a
\* successful Run, the queue holds one payload per id of the call, in
\* order, when desiredRun is running, and nothing otherwise.
C16_EnqueueIffRunning ==
    /\ [][(req.op = "run" /\ queue' # queue) =>
            LET d == req.doc_ids[i]
                p == queue'[Len(queue')]
            IN /\ pc = "run_enqueue" /\ req.run = RUNNING
               /\ Len(queue') = Len(queue) + 1
               /\ SubSeq(queue', 1, Len(queue)) = queue
               /\ p.doc_id = d
               /\ p.doc = docs[d]
               /\ p.doc.run = RUNNING /\ p.doc.progress = 0
               /\ req.delete => (p.doc.token_num = 0 /\ p.doc.chunk_num = 0)
               /\ p.tenant_id = get_tenant_id(d)
               /\ <<p.bucket, p.name>> = get_storage_address(d)]_vars
    /\ []((Succeeded("run") /\ nops = 1) =>
            IF req.run = RUNNING
            THEN /\ Len(queue) = Len(req.doc_ids)
                 /\ \A n \in 1..Len(queue) :
                       queue[n].doc_id = req.doc_ids[n]
            ELSE queue = <<>>)

\* a Run of two ids enqueued two payloads, the first for a Document stored
\* with a File of the user's tree
C16_Witness ==
    /\ Succeeded("run") /\ nops = 1 /\ req.run = RUNNING
    /\ Len(req.doc_ids) = 2 /\ Len(queue) = 2
    /\ queue[1].bucket = DirBucket
    /\ queue[1].doc.run = RUNNING

\* -------------------------------------------------------------- C17
\* a Rename of an existing Document enters with new name nm
RenameEnters == pc = "idle" /\ req'.op = "rename" /\ docs[req'.doc_id] # NoDoc

\* the first step answered with an error and wrote nothing
Refused(msgs) == pc' = "done" /\ res' \in msgs /\ UNCHANGED stores

\* C17 (as claimed): a Rename whose new name has a non-empty suffix that
\* differs from the Document's non-empty suffix fails with the extension
\* error and leaves the name unchanged.
C17_Original ==
    [][(RenameEnters
        /\ suffix(req'.name) # "" /\ suffix(docs[req'.doc_id].name) # ""
        /\ suffix(req'.name) # suffix(docs[req'.doc_id].name))
         => Refused({"The extension of file can't be changed"})]_vars

\* C17 (amended): a Rename whose new name has a non-empty suffix that
\* differs, compared in lower case, from the Document's non-empty suffix
\* fails with the extension error and leaves the name unchanged.
C17_SuffixKept ==
    [][(RenameEnters
        /\ suffix(req'.name) # "" /\ suffix(docs[req'.doc_id].name) # ""
        /\ lower(suffix(req'.name)) # lower(suffix(docs[req'.doc_id].name)))
         => Refused({"The extension of file can't be changed"})]_vars

\* a Rename from .pdf to .txt was refused
C17_Witness ==
    /\ pc = "done" /\ req.op = "rename"
    /\ res = "The extension of file can't be changed"
    /\ suffix(req.name) = "txt"
    /\ suffix(docs[req.doc_id].name) = "pdf"

\* -------------------------------------------------------------- C18
\* C18: a Rename to a name that another Document of the same KB has fails
\* in its first step and leaves every store as it was.
C18_DuplicateRefused ==
    [][(RenameEnters
        /\ \E e \in DocIds \ {req'.doc_id} :
              /\ docs[e] # NoDoc
              /\ docs[e].kb = docs[req'.doc_id].kb
              /\ docs[e].name = req'.name)
         => Refused({"The extension of file can't be changed",
                     "Duplicated document name in the same knowledgebase."})
      ]_vars

\* a Rename to the name of another Document was refused as a duplicate
C18_Witness ==
    /\ pc = "done" /\ req.op = "rename"
    /\ res = "Duplicated document name in the same knowledgebase."
    /\ docs[req.doc_id].name # req.name
    /\ \E e \in DocIds \ {req.doc_id} :
          docs[e] # NoDoc /\ docs[e].name = req.name

\* -------------------------------------------------------------- C19
\* C19 (as claimed): after a successful Rename of a Document with a link
\* the linked File has the Document's new name; a Rename that reports an
\* error does not leave the Document with the new name and its linked
\* File with another.
C19_FileFollowsRename ==
    (pc = "done" /\ req.op = "rename" /\ docs[req.doc_id] # NoDoc
     /\ LinksOfDoc(req.doc_id) # {}
     /\ files[FirstLink(req.doc_id).file_id] # NoFile)
      => LET file == files[FirstLink(req.doc_id).file_id] IN
         /\ res = "ok" =>
               (docs[req.doc_id].name = req.name /\ file.name = req.name)
         /\ res # "ok" =>
               ~(docs[req.doc_id].name = req.name /\ file.name # req.name)

\* -------------------------------------------------------------- C20
\* C20: a create whose name a Document of the KB has ends with the
\* duplicate-name error; no step of a create touches the Blob Store, the
\* Task Queue or any store but the Document rows, and only the insert
\* writes a Document row, one that was not there; a create that does not
\* succeed has inserted nothing; a create that succeeds has inserted one
\* Document: virtual, with an empty location, size 0, the name asked for
\* and the KB's parser_id and parser_config.
C20_CreateVirtual ==
    /\ [][(req.op = "create" /\ pc # "done") =>
            /\ UNCHANGED <<tasks, kbs, files, f2d, blobs, idx, idxExists,
                           queue>>
            /\ (pc = "cr_check" /\ faults' = faults
                /\ NameTaken(req.kb_id, req.name)) =>
                  (pc' = "done" /\ res' =
                     "Duplicated document name in the same knowledgebase.")
            /\ docs' # docs =>
                  \E d \in DocIds :
                      /\ docs[d] = NoDoc /\ docs'[d] # NoDoc
                      /\ \A e \in DocIds \ {d} : docs'[e] = docs[e]
                      /\ pc' = "done" /\ res' = "ok"]_vars
    /\ []((pc = "done" /\ req.op = "create") =>
            IF res = "ok"
            THEN /\ Len(made) = 1
                 /\ docs[made[1]].kb = req.kb_id
                 /\ docs[made[1]].name = req.name
                 /\ docs[made[1]].type = VIRTUAL
                 /\ docs[made[1]].location = NoLoc
                 /\ docs[made[1]].size = 0
                 /\ docs[made[1]].parser_id = kb_parser_id(req.kb_id)
                 /\ docs[made[1]].parser_config = kb_parser_config(req.kb_id)
            ELSE made = <<>>)

\* a create in the second KB succeeded: the Document has that KB's parser
C20_Witness ==
    /\ Succeeded("create") /\ req.kb_id = 2
    /\ Len(made) = 1
    /\ docs[made[1]].type = VIRTUAL
    /\ docs[made[1]].parser_id = "book"

\* -------------------------------------------------------------- C21
\* C21: a web_crawl puts its blob under the file name followed by the
\* fewest "_" for which the bucket holds no object, and the put never
\* overwrites a blob that is already in the bucket, on either thread
FewestFree(k, nm, loc) ==
    /\ loc = Key(nm, loc.us)
    /\ <<KbBucket(k), loc>> \notin blobs
    /\ \A u \in 0..(loc.us - 1) : <<KbBucket(k), Key(nm, u)>> \in blobs

C21_CollisionFree ==
    [][/\ (pc = "crawl_put" /\ pc' = "crawl_insert")
            => FewestFree(req.kb_id, cur.filename, cur.location)
       /\ (peer.pc = "crawl_put" /\ peer'.pc = "crawl_insert")
            => FewestFree(peer.kb_id, peer.filename, peer.location)]_vars

\* -------------------------------------------------------------- C22
\* C22: a step of document rm or of kb rm deletes a File row only if its
\* source is the knowledge-base-private copy: the File of the first link
\* is deleted exactly in that case, the links of the Document are deleted
\* next, and a File of the user's general folder tree stays as it is
RmFileStep ==
    \/ req.op = "rm" /\ pc = "rm_file" /\ pc' = "rm_link"
    \/ req.op = "kb_rm" /\ pc = "kb_file" /\ pc' = "kb_link"
       /\ LinksOfDoc(informs[i]) # {}

RmLinkStep ==
    \/ req.op = "rm" /\ pc = "rm_link" /\ pc' = "rm_blob"
    \/ req.op = "kb_rm" /\ pc = "kb_link" /\ pc' \in {"kb_doc", "kb_folder"}

RmDoc == IF req.op = "rm" THEN req.doc_ids[i] ELSE informs[i]

C22_OnlyPrivateFile ==
    [][req.op \in {"rm", "kb_rm"} =>
        /\ \A f \in FileIds :
             (files[f] # NoFile /\ files'[f] # files[f])
                => (files[f].source_type = KNOWLEDGEBASE /\ files'[f] = NoFile)
        /\ RmFileStep =>
             LET f == FirstLink(RmDoc).file_id IN
             (files[f] # NoFile /\ files[f].source_type = KNOWLEDGEBASE)
                => files'[f] = NoFile
        /\ RmLinkStep => \A l \in f2d' : l.document_id # RmDoc]_vars

\* a Delete has removed the link of a Document converted from a File of the
\* general folder tree, and that File row is still there
C22_Witness ==
    /\ req.op = "rm" /\ pc = "rm_blob"
    /\ born[req.doc_ids[i]] = <<DirBucket, LocalKey>>
    /\ docs[req.doc_ids[i]] = NoDoc
    /\ LinksOfFile(LocalFile) = {}
    /\ files[LocalFile] # NoFile

\* -------------------------------------------------------------- C23
\* C23: a tick of the Sweeper that raises does not end the loop: the
\* thread returns only when the stop signal is set, from the except clause
\* it goes back to the loop test, and unless the stop signal is set (or the
\* process is gone) a further call of update_progress follows
C23_FailingTickSurvives ==
    /\ [](sweeper = "returned" => stop_event)
    /\ [][sweeper = "except" => sweeper' \in {"except", "while"}]_vars
    /\ (sweeper = "except")
          ~> (sweeper = "update_progress" \/ stop_event \/ ProcessGone)

\* a tick is running after the tick before it raised
C23_Witness ==
    /\ sweeper = "update_progress"
    /\ last_tick = "raised"
    /\ ~stop_event

\* -------------------------------------------------------------- C24
\* C24: once stop_event is set the Sweeper starts no new tick after its
\* loop test has seen it and it ends (or the process is killed); a thread
\* in stop_event.wait whose event is set can leave the wait at once; and
\* the process ends only with stop_event set and after the sleep of one
\* second
C24_StopSignal ==
    /\ [][(sweeper' = "update_progress" /\ sweeper # "update_progress")
            => ~stop_event]_vars
    /\ [][sweeper = "returned" => sweeper' = "returned"]_vars
    /\ stop_event ~> (sweeper = "returned" \/ ProcessGone)
    /\ []((sweeper = "wait" /\ stop_event /\ ~ProcessGone)
            => ENABLED SweeperWait)
    /\ [](ProcessGone => stop_event)
    /\ [][(main' \in {"shutdown", "killed"} /\ main' # main)
            => (stop_event /\ sleep_left = 0)]_vars

\* the process has exited after a signal that reached the Sweeper in its
\* wait, before the period was over
C24_Witness ==
    /\ main = "exited"
    /\ sweeper = "returned"
    /\ wait_left > 0

\* -------------------------------------------------------------- C25
\* a step of the status handler
StatusStep == (req.op = "status" \/ req'.op = "status") /\ pc' # pc

\* the handler's step for one executor stores exactly the heartbeats of
\* the 30 minutes before the time read at line 172
StatusWindow ==
    (req.op = "status" /\ pc = "st_range" /\ i' = i + 1) =>
        LET e == informs[i] IN
        /\ e \in DOMAIN cur'.task_executor_heartbeats
        /\ cur'.task_executor_heartbeats[e] =
              {h \in heartbeats[e] : cur.now - 1800 <= h /\ h <= cur.now}

\* the executors that have an entry in the response
Reported == DOMAIN cur'.task_executor_heartbeats

StatusResponds == req.op = "status" /\ pc # "done" /\ pc' = "done"

\* C25 as stated: status changes no store and no Redis record, and every
\* response has one entry per executor id of TASKEXE, with the heartbeats
\* of the window
C25_Original ==
    [][/\ StatusStep => UNCHANGED <<stores, TASKEXE, heartbeats>>
       /\ StatusWindow
       /\ StatusResponds =>
            IF pc = "st_members" THEN Reported = TASKEXE
            ELSE Reported = {informs[n] : n \in DOMAIN informs}]_vars

\* C25, amended: the same, for a response that no raising Redis read cut
\* short; after an exception the entries gathered so far are the response
C25_Observational ==
    [][/\ StatusStep => UNCHANGED <<stores, TASKEXE, heartbeats>>
       /\ StatusWindow
       /\ (StatusResponds /\ ~faulted') =>
            IF pc = "st_members" THEN Reported = TASKEXE
            ELSE Reported = {informs[n] : n \in DOMAIN informs}
       /\ (StatusResponds /\ faulted') =>
            /\ res' = "ok"
            /\ cur' = cur]_vars

\* a response with an empty list for an executor whose heartbeats are all
\* older than the window, next to an executor with a heartbeat in it
C25_Witness ==
    /\ req.op = "status" /\ pc = "done" /\ ~faulted
    /\ \E e, f \in DOMAIN cur.task_executor_heartbeats :
         /\ cur.task_executor_heartbeats[e] = {}
         /\ heartbeats[e] # {}
         /\ cur.task_executor_heartbeats[f] # {}

\* -------------------------------------------------------------- C26
\* C26: a KB update sends a patch to the index exactly when it changes the
\* KB's pagerank; the patch removes the field from the KB's entries when
\* the new value is 0 and sets it on them when the value is positive; no
\* entry ever stores pagerank 0
KbEntries(k) == {d \in DocIds : idx[d].n > 0 /\ idx[d].kb = k}

C26_PagerankPatch ==
    /\ [](\A d \in DocIds : 0 \notin idx[d].pagerank_fea)
    /\ [][(req.op = "kb_update" /\ pc = "kbu_update" /\ pc' # "done") =>
            ((pc' = "kbu_patch")
               <=> (kbs'[req.kb_id].pagerank # kbs[req.kb_id].pagerank))]_vars
    /\ [][(req.op = "kb_update" /\ pc = "kbu_patch" /\ pc' = "kbu_get") =>
            /\ \A d \in KbEntries(req.kb_id) :
                 idx'[d].pagerank_fea =
                    IF kbs[req.kb_id].pagerank > 0
                    THEN {kbs[req.kb_id].pagerank} ELSE {}
            /\ \A d \in DocIds \ KbEntries(req.kb_id) : idx'[d] = idx[d]]_vars

\* -------------------------------------------------------------- C27
\* the JSON texts that denote a flat key-to-value mapping
FlatMaps == {"{}", "{\"a\": 1}"}

\* C27: set_meta of an accessible Document answers a text that is not a
\* flat mapping with a validation error and writes nothing, and stores
\* any other text as the Document's meta_fields
C27_FlatMetaOnly ==
    [][/\ (pc = "idle" /\ req'.op = "set_meta" /\ accessible(req'.doc_id)
                /\ req'.meta \notin FlatMaps)
            => Refused({"Json syntax error",
                        "Meta data should be in Json map format"})
       /\ (req.op = "set_meta" /\ pc = "sm_update" /\ res' = "ok")
            => /\ req.meta \in FlatMaps
               /\ docs'[req.doc_id].meta_fields = req.meta]_vars

\* -------------------------------------------------------------- C28
\* C28: a call of duplicate_name returns a name; the name is the one it
\* was given when no record has it, it is not the name of a record, and
\* it has the extension of the name the call was given
C28_DuplicateName ==
    (pc = "done" /\ req.op = "duplicate_name") =>
        /\ ~cur.raised
        /\ req.name \notin req.objs => cur.name = req.name
        /\ cur.name \notin req.objs
        /\ Path_suffix(cur.name) = Path_suffix(req.name)


\* C29: Delete of a Document that has no File-Document link removes the
\* Document's Tasks and Metadata row and reports success: the step of lines
\* 441-447 taken for such a Document, with no store call raising, adds
\* nothing to the errors of the request, and the Tasks and the row are gone.
C29_LinklessDelete ==
    [][(pc = "rm_file" /\ LinksOfDoc(req.doc_ids[i]) = {} /\ faults' = faults)
          => /\ errors' = errors
             /\ tasks[req.doc_ids[i]] = 0
             /\ docs[req.doc_ids[i]] = NoDoc]_vars


\* the request that enters with this step is a Delete or a Run whose batch
\* names an id the caller may not access
RefusedBatch ==
    /\ pc = "idle"
    /\ req'.op \in {"rm", "run"}
    /\ \E n \in 1..Len(req'.doc_ids) : ~accessible(req'.doc_ids[n])

\* C30: authorization of a batch is all-or-nothing: a Delete or Run whose
\* batch holds an inaccessible id answers with the authorization error as
\* its first and only step, and neither that step nor any later step of the
\* request changes Metadata, Task, File, link, Index Store, Blob Store or
\* Task Queue state, for the accessible ids of the batch either.
C30_AllOrNothing ==
    [][/\ RefusedBatch => /\ pc' = "done"
                          /\ res' = "No authorization."
                          /\ UNCHANGED stores
       /\ (req.op \in {"rm", "run"} /\ res = "No authorization.")
             => /\ pc' = "idle"
                /\ UNCHANGED stores]_vars

\* a Delete or Run was refused although its batch names an accessible
\* Document next to the inaccessible one
C30_Witness ==
    /\ pc = "done"
    /\ req.op \in {"rm", "run"}
    /\ res = "No authorization."
    /\ \E n \in 1..Len(req.doc_ids) : accessible(req.doc_ids[n])
    /\ \E n \in 1..Len(req.doc_ids) : ~accessible(req.doc_ids[n])


\* C31: in every reachable state no two Documents of the same KnowledgeBase
\* have the same name, whatever the interleaving of concurrent create and
\* rename calls on that KB.
C31_UniqueNames ==
    \A d \in DocIds, e \in DocIds :
        (d # e /\ docs[d] # NoDoc /\ docs[e] # NoDoc /\ docs[d].kb = docs[e].kb)
            => docs[d].name # docs[e].name


\* C32: after an accepted real change by ChangeParser that ends in success,
\* no Task row of the Document is left: the Tasks made under the previous
\* parser are gone when the run state is back at unstart.
C32_NoOldTask ==
    (CpAccepted /\ pc = "done" /\ res = "ok") => tasks[req.doc_id] = 0


\* C33: between two consecutive ticks of the Sweeper the loop waits for the
\* period or for the stop signal, also after a tick that raised: the loop
\* test never starts a call of update_progress when the call before it
\* raised, since no stop_event.wait lies between the two.
C33_WaitBetweenTicks ==
    [][(sweeper = "while" /\ sweeper' = "update_progress")
          => last_tick # "raised"]_vars


\* the Documents of the knowledge bases other than k
OtherKbDocs(k) == {d \in DocIds : docs[d] # NoDoc /\ docs[d].kb # k}

\* C34: no step of DeleteKnowledgeBase(kb) changes a Document row, a
\* private File row or an Index Store entry of another KnowledgeBase, the
\* KnowledgeBases that share the tenant's index included.
C34_OtherKbsUntouched ==
    [][(pc # "idle" /\ req.op = "kb_rm") =>
          /\ \A d \in OtherKbDocs(req.kb_id) :
                /\ docs'[d] = docs[d]
                /\ idx'[d] = idx[d]
                /\ files'[KbFile(d)] = files[KbFile(d)]
          /\ \A k \in KbIds \ {req.kb_id} :
                files'[KbFolder(k)] = files[KbFolder(k)]]_vars


\* C36: a KB update whose new name differs, ignoring case, from the KB's
\* current name while another valid KnowledgeBase has the new name is
\* answered, when no store call fails, with 'Duplicated knowledgebase
\* name.', and that step changes no Metadata row and no Index Store entry.
C36_DuplicateKbName ==
    [][(/\ req.op = "kb_update" /\ pc = "kbu_check"
        /\ faults' = faults
        /\ lower_name(req.name) # lower_name(cur.kb.name)
        /\ \E k \in KbIds \ {req.kb_id} :
              kbs[k].live /\ kbs[k].name = req.name)
          => /\ pc' = "done"
             /\ res' = "Duplicated knowledgebase name."
             /\ UNCHANGED stores]_vars


\* C35: no two valid KnowledgeBases of the tenant have the same name, after
\* any sequence of create calls: the name a create stores is held by no
\* other valid KnowledgeBase.
C35_UniqueKbNames ==
    \A k \in KbIds, m \in KbIds :
        (k # m /\ kbs[k].live /\ kbs[m].live) => kbs[k].name # kbs[m].name


\* the members of a list
Range(s) == {s[n] : n \in 1..Len(s)}

\* the links of File f whose Document is in knowledge base k
LinksInto(f, k) ==
    {l \in LinksOfFile(f) :
        docs[l.document_id] # NoDoc /\ docs[l.document_id].kb = k}

\* C37: after a successful convert(fileIds, kbIds), kbIds naming each KB
\* once, every converted File has exactly one link per target KB, every
\* link of it refers to an existing Document of a target KB, and the
\* Documents linked to it before the call are removed; and a convert that
\* returns an error leaves no link whose Document does not exist.
C37_ConvertLinks ==
    /\ (Succeeded("convert")
          /\ Cardinality(Range(req.kb_ids)) = Len(req.kb_ids)) =>
            \A n \in 1..Len(req.file_ids) :
               LET f == req.file_ids[n] IN
               /\ \A k \in Range(req.kb_ids) :
                     Cardinality(LinksInto(f, k)) = 1
               /\ \A l \in LinksOfFile(f) :
                     /\ docs[l.document_id] # NoDoc
                     /\ docs[l.document_id].kb \in Range(req.kb_ids)
               /\ \A m \in 1..Len(informs) : docs[informs[m]] = NoDoc
    /\ (pc = "done" /\ req.op = "convert" /\ res # "ok") =>
            \A l \in f2d : docs[l.document_id] # NoDoc


\* C38: file-link removal removes the links of a File and the Documents
\* they point to together: however the call ends, no Document that was
\* linked to the File when the call read its links is still there with no
\* link left.
C38_LinksAndDocsTogether ==
    (pc = "done" /\ req.op = "f2d_rm") =>
        \A n \in 1..Len(informs) :
            docs[informs[n]] # NoDoc => LinksOfDoc(informs[n]) # {}


\* C39: agree(tenant) only turns a pending invitation of the caller into a
\* normal membership: its update changes no row of another (user, tenant)
\* pair, changes no row when the caller has no invitation, and leaves the
\* role of an owner or of a normal member as it is; and no (user, tenant)
\* pair ever has a second membership row.
C39_AgreeOnlyInvited ==
    /\ [](\A p \in Users \X Users : Len(user_tenant[p]) <= 1)
    /\ [][(req.op = "agree" /\ pc = "ag_update") =>
            \A p \in Users \X Users :
               /\ Len(user_tenant'[p]) = Len(user_tenant[p])
               /\ \A n \in 1..Len(user_tenant[p]) :
                     user_tenant'[p][n] =
                        IF /\ p = <<req.user, req.tenant_id>>
                           /\ user_tenant[p][n] = INVITE
                           /\ pc' = "done" /\ res' = "ok"
                        THEN NORMAL
                        ELSE user_tenant[p][n]]_vars

====
